---- MODULE Spec2Model ----
(***************************************************************************)
(* Placeholder-resolution dialog engine of lexsy-prototype: the            *)
(* Orchestrator (lib/agents/Orchestrator.ts), the ExtractionAgent, the     *)
(* QuestionAgent, the ClassifierAgent, the ValidationAgent and the helpers *)
(* of BaseAgent.  A model call that raises ends the turn where the code    *)
(* has no try/catch around it.                                             *)
(*                                                                         *)
(* Strings are sequences of one-character strings, so that toLowerCase,    *)
(* trim, replace(/\s+/g, "_") and includes are computed as the code        *)
(* computes them.  session.placeholders is fixed when the session is       *)
(* created, so it is a definition and not a variable.  Texts produced by   *)
(* the language model are opaque: a                                        *)
(* question is the tag "Q:" followed by the key of the placeholder the     *)
(* prompt was about, an explanation or an acknowledgment is one token.     *)
(***************************************************************************)
EXTENDS Integers, Sequences, FiniteSets, TLC

VARIABLES
  responses,            \* session.responses : key -> value
  skippedPlaceholders,  \* session.skippedPlaceholders : array of keys
  currentPlaceholderKey,\* Orchestrator.currentPlaceholderKey
  lastQuestion,         \* Orchestrator.lastQuestion
  turn,                 \* the last processMessage call: inputs, pre-state, envelope
  validation,           \* a validateValue call: inputs and returned result
  requests,             \* the POST /api/chat requests in flight
  explained,            \* an ExplanationAgent.explain call: model output and returned text
  mapping,              \* a mapToPlaceholderKeys call: extracted pairs and returned record
  detection,            \* a DetectionAgent.detect call: document, chunks, placeholders found
  download,             \* a GET /api/download/[id] request and its reply
  client                \* ChatInterface state: document and currentPlaceholder

vars == <<responses, skippedPlaceholders, currentPlaceholderKey, lastQuestion,
          turn, validation, requests, explained, mapping, detection,
          download, client>>

----------------------------------------------------------------------------
(* Strings *)

\* JavaScript undefined (an absent optional field); no string equals it.
Undefined == <<"undefined">>

\* The empty string.
Empty == <<>>

UpperChars == <<"A","B","C","D","E","F","G","H","I","J","K","L","M",
                "N","O","P","Q","R","S","T","U","V","W","X","Y","Z">>
LowerChars == <<"a","b","c","d","e","f","g","h","i","j","k","l","m",
                "n","o","p","q","r","s","t","u","v","w","x","y","z">>

\* The characters /\s/ matches.
Whitespace == {" ", "\t", "\n"}

\* String.prototype.toLowerCase
toLowerCase(s) ==
  LET LowerChar(c) ==
        IF \E i \in DOMAIN UpperChars : UpperChars[i] = c
        THEN LowerChars[CHOOSE i \in DOMAIN UpperChars : UpperChars[i] = c]
        ELSE c
  IN  [i \in DOMAIN s |-> LowerChar(s[i])]

\* String.prototype.trim
RECURSIVE TrimLeft(_)
TrimLeft(s) ==
  IF s # <<>> /\ Head(s) \in Whitespace THEN TrimLeft(Tail(s)) ELSE s

RECURSIVE TrimRight(_)
TrimRight(s) ==
  IF s # <<>> /\ s[Len(s)] \in Whitespace
  THEN TrimRight(SubSeq(s, 1, Len(s) - 1))
  ELSE s

trim(s) == TrimRight(TrimLeft(s))

\* s.replace(/\s+/g, "_"): every maximal run of whitespace becomes one "_".
RECURSIVE ReplaceWs(_)
ReplaceWs(s) ==
  IF s = <<>> THEN <<>>
  ELSE IF Head(s) \in Whitespace
       THEN <<"_">> \o ReplaceWs(TrimLeft(s))
       ELSE <<Head(s)>> \o ReplaceWs(Tail(s))

\* String.prototype.includes
includes(s, sub) ==
  \E i \in 1..(Len(s) - Len(sub) + 1) : SubSeq(s, i, i + Len(sub) - 1) = sub

\* The truthiness of `value?.trim()` for a present string.
NonBlank(v) == trim(v) # Empty

----------------------------------------------------------------------------
(* The strings of the model *)

company_name == <<"c","o","m","p","a","n","y","_","n","a","m","e">>
company      == <<"c","o","m","p","a","n","y">>
founder_name == <<"f","o","u","n","d","e","r","_","n","a","m","e">>
founder      == <<"f","o","u","n","d","e","r">>
signing_date == <<"s","i","g","n","i","n","g","_","d","a","t","e">>
name         == <<"n","a","m","e">>

CompanyNameLabel == <<"C","o","m","p","a","n","y"," ","N","a","m","e">>
SigningDateLabel == <<"S","i","g","n","i","n","g"," ","D","a","t","e">>

Acme  == <<"A","c","m","e">>
Beta  == <<"B","e","t","a">>
Blank == <<" ">>
IsoDate == <<"2","0","2","4","-","0","1","-","0","5">>

----------------------------------------------------------------------------
(* Bounds and input domains *)

\* Longest array of key/value pairs the extraction model returns in one call.
MaxPairs == 1

\* session.placeholders: the detected placeholders of the uploaded template
\* (PlaceholderDetected), fixed when the session is created.
placeholders ==
  << [key |-> company_name, label |-> CompanyNameLabel, type |-> "text"],
     [key |-> signing_date, label |-> SigningDateLabel, type |-> "date"] >>

\* The pairs the extraction model may return: a value for each placeholder
\* key, a second name under the key "name", and a value that is truthy but
\* blank.
\* parsedResult.extractedValues is an array of up to MaxPairs of them.
RawOutputs ==
  LET pairs == { <<company_name, Acme>>, <<name, Beta>>,
                 <<signing_date, IsoDate>>, <<signing_date, Blank>> }
  IN  UNION {[1..n -> pairs] : n \in 0..MaxPairs}

----------------------------------------------------------------------------
(* Record<string, string> with insertion order: a sequence of <<key, value>> *)

Keys(m) == {m[i][1] : i \in DOMAIN m}

Get(m, k) == m[CHOOSE i \in DOMAIN m : m[i][1] = k][2]

\* m[k] = v
Put(m, k, v) ==
  IF k \in Keys(m)
  THEN [i \in DOMAIN m |-> IF m[i][1] = k THEN <<k, v>> ELSE m[i]]
  ELSE Append(m, <<k, v>>)

PlaceholderKeys == {placeholders[i].key : i \in DOMAIN placeholders}

\* ps.find(p => p.key === k): whether it finds one, and the one it finds.
HasKeyIn(ps, k) == \E i \in DOMAIN ps : ps[i].key = k

FindIn(ps, k) ==
  ps[CHOOSE i \in DOMAIN ps :
       /\ ps[i].key = k
       /\ \A j \in 1..(i - 1) : ps[j].key # k]

\* A truthy optional string: neither undefined nor "".
Truthy(s) == s # Undefined /\ s # Empty

----------------------------------------------------------------------------
(* BaseAgent and Orchestrator helpers *)

\* `responses[key]?.trim()` is truthy
Filled(resp, k) == k \in DOMAIN resp /\ NonBlank(resp[k])

\* Mutant of isComplete: `some` instead of `every`.
isCompleteSome(resp) ==
  \E i \in DOMAIN placeholders : Filled(resp, placeholders[i].key)

\* Orchestrator.isComplete / BaseAgent.isComplete
isComplete(resp) ==
  \A i \in DOMAIN placeholders : Filled(resp, placeholders[i].key)

\* BaseAgent.getUnfilledPlaceholders: definition order, skipped or not.
BaseGetUnfilledPlaceholders(resp) ==
  LET Unfilled(p) == ~Filled(resp, p.key)
  IN  SelectSeq(placeholders, Unfilled)

InSeq(s, x) == \E i \in DOMAIN s : s[i] = x

\* Orchestrator.getUnfilledPlaceholders: not skipped first, skipped last.
getUnfilledPlaceholders(resp, skipped) ==
  LET unfilled == BaseGetUnfilledPlaceholders(resp)
      IsSkipped(p)  == InSeq(skipped, p.key)
      NotSkipped(p) == ~InSeq(skipped, p.key)
  IN  SelectSeq(unfilled, NotSkipped) \o SelectSeq(unfilled, IsSkipped)

\* `list[0]?.key`
FirstKey(list) == IF list = <<>> THEN Undefined ELSE list[1].key

\* for (const key of Object.keys(extractedValues)) {
\*   const index = skipped.indexOf(key); if (index > -1) skipped.splice(index, 1) }
RECURSIVE RemoveExtracted(_, _)
RemoveExtracted(skipped, extracted) ==
  LET RemoveFirst(k) ==
        IF InSeq(skipped, k)
        THEN LET i == CHOOSE i \in DOMAIN skipped :
                        skipped[i] = k /\ \A j \in 1..(i - 1) : skipped[j] # k
             IN  SubSeq(skipped, 1, i - 1) \o
                 SubSeq(skipped, i + 1, Len(skipped))
        ELSE skipped
  IN  IF extracted = <<>> THEN skipped
      ELSE RemoveExtracted(RemoveFirst(Head(extracted)[1]), Tail(extracted))

----------------------------------------------------------------------------
(* ExtractionAgent *)

synonymKeys == {company, company_name, founder_name, founder}

synonymMap(k) ==
  CASE k = company      -> company_name
    [] k = company_name -> company_name
    [] k = founder_name -> founder
    [] k = founder      -> founder

\* The reduce of extract(): pairs with a truthy key and value, later pairs
\* of the same key replacing earlier ones.
RECURSIVE ExtractedValuesRecord(_, _)
ExtractedValuesRecord(acc, raw) ==
  IF raw = <<>> THEN acc
  ELSE LET item == Head(raw)
       IN  ExtractedValuesRecord(
             IF item[1] # Empty /\ item[2] # Empty
             THEN Put(acc, item[1], item[2]) ELSE acc,
             Tail(raw))

\* lowerKey, then synonymMap[lowerKey] ?? lowerKey.replace(/\s+/g, "_")
MappedKey(key) ==
  LET lowerKey == trim(toLowerCase(key))
  IN  IF lowerKey \in synonymKeys THEN synonymMap(lowerKey)
      ELSE ReplaceWs(lowerKey)

\* The index of the placeholder the find over all placeholders returns,
\* 0 when it finds none.
RECURSIVE FirstMatchIn(_, _, _)
FirstMatchIn(ps, mappedKey, i) ==
  LET \* the predicate of the find
      MatchesPlaceholder(p) ==
        /\ p.key # Empty
        /\ p.label # Empty
        /\ \/ mappedKey = ReplaceWs(toLowerCase(p.key))
           \/ mappedKey = ReplaceWs(toLowerCase(p.label))
  IN  IF i > Len(ps) THEN 0
      ELSE IF MatchesPlaceholder(ps[i]) THEN i
      ELSE FirstMatchIn(ps, mappedKey, i + 1)

\* The pair is bound to the preferred placeholder: the preferred key is
\* given, the session has its placeholder, and one of the five tests holds.
BoundToPreferred(ps, key, preferredPlaceholderKey) ==
  LET BindsToPreferred(mappedKey, p) ==
        LET preferredKeyNormalized   == ReplaceWs(toLowerCase(p.key))
            preferredLabelNormalized == ReplaceWs(toLowerCase(p.label))
        IN  \/ mappedKey = preferredKeyNormalized
            \/ mappedKey = preferredLabelNormalized
            \/ includes(toLowerCase(p.label), mappedKey)
            \/ includes(mappedKey, preferredKeyNormalized)
            \/ includes(mappedKey, preferredLabelNormalized)
  IN  /\ Truthy(preferredPlaceholderKey)
      /\ HasKeyIn(ps, preferredPlaceholderKey)
      /\ BindsToPreferred(MappedKey(key), FindIn(ps, preferredPlaceholderKey))

\* The key one pair is stored under, for the placeholders `ps`.
TargetKeyIn(ps, key, preferredPlaceholderKey) ==
  LET Stored(matchingPlaceholder) ==
        IF matchingPlaceholder = 0 THEN key
        ELSE ps[matchingPlaceholder].key
  IN  IF BoundToPreferred(ps, key, preferredPlaceholderKey)
      THEN FindIn(ps, preferredPlaceholderKey).key
      ELSE Stored(FirstMatchIn(ps, MappedKey(key), 1))

\* TargetKeyIn tabulated for the placeholders, keys and hints of the dialog:
\* triples <<key, hint, key the pair is stored under>>.  RawKeys are the
\* keys the extraction model may put in a pair: the placeholder keys and a
\* word that occurs in the label of the first placeholder only.
TargetKeyTable ==
  LET RawKeys == {company_name, signing_date, name}
  IN  {<<k, p, TargetKeyIn(placeholders, k, p)>> :
         k \in RawKeys, p \in PlaceholderKeys \cup {Undefined}}

\* The key one pair is stored under, looked up in the table.
TargetKeyOf(key, preferredPlaceholderKey) ==
  (CHOOSE t \in TargetKeyTable :
     t[1] = key /\ t[2] = preferredPlaceholderKey)[3]

RECURSIVE MapEntries(_, _, _)
MapEntries(mapped, entries, preferredPlaceholderKey) ==
  IF entries = <<>> THEN mapped
  ELSE MapEntries(
         Put(mapped, TargetKeyOf(Head(entries)[1], preferredPlaceholderKey),
             Head(entries)[2]),
         Tail(entries), preferredPlaceholderKey)

RECURSIVE MapEntriesIn(_, _, _, _)
MapEntriesIn(ps, mapped, entries, preferredPlaceholderKey) ==
  IF entries = <<>> THEN mapped
  ELSE MapEntriesIn(ps,
         Put(mapped, TargetKeyIn(ps, Head(entries)[1], preferredPlaceholderKey),
             Head(entries)[2]),
         Tail(entries), preferredPlaceholderKey)

\* ExtractionAgent.mapToPlaceholderKeys of a session with placeholders `ps`.
mapToPlaceholderKeysIn(ps, extractedValues, preferredPlaceholderKey) ==
  MapEntriesIn(ps, <<>>, extractedValues, preferredPlaceholderKey)

\* ExtractionAgent.mapToPlaceholderKeys
mapToPlaceholderKeys(extractedValues, preferredPlaceholderKey) ==
  MapEntries(<<>>, extractedValues, preferredPlaceholderKey)

\* Mutant of NewKeys: the filter on unfilled keys is forgotten.
NewKeysUnfiltered(resp, mappedValues) == Keys(mappedValues)

\* Mutant of NewKeys: the negation of the filter is lost.
NewKeysFilled(resp, mappedValues) ==
  {k \in Keys(mappedValues) : Filled(resp, k)}

\* Object.keys(mappedValues).filter(k => !(responses[k]?.trim()))
NewKeys(resp, mappedValues) ==
  {k \in Keys(mappedValues) : ~Filled(resp, k)}

\* Mutant of WriteNew: every mapped value is written, filled key or not.
WriteNewEvery(resp, mappedValues) ==
  [k \in DOMAIN resp \cup Keys(mappedValues) |->
     IF k \in Keys(mappedValues) THEN Get(mappedValues, k) ELSE resp[k]]

\* The writes of extract(): responses[key] = mappedValues[key] for new keys.
WriteNew(resp, mappedValues) ==
  LET newKeys == NewKeys(resp, mappedValues)
  IN  [k \in DOMAIN resp \cup newKeys |->
         IF k \in newKeys THEN Get(mappedValues, k) ELSE resp[k]]

\* An answer of the extraction model (parsedResult) with nothing in it; with
\* threw = TRUE, the call of the model that raised instead of answering.
NoAnswer == [threw |-> FALSE, understood |-> FALSE, extractedValues |-> <<>>,
             response |-> Empty, needsClarification |-> FALSE]

ExtractionFails == [NoAnswer EXCEPT !.threw = TRUE]

\* Mutant of extract: the mapped values are returned but none is written.
extractWithoutWrite(resp, out, contextKey) ==
  [threw |-> out.threw, responses |-> resp,
   result |-> [understood |-> out.understood,
               extractedValues |->
                 IF out.threw THEN <<>>
                 ELSE mapToPlaceholderKeys(
                        ExtractedValuesRecord(<<>>, out.extractedValues),
                        contextKey),
               response |-> out.response,
               needsClarification |-> out.needsClarification]]

\* ExtractionAgent.extract on a model answer `out`: the responses after the
\* call and the ExtractionResult it returns.  The call of the model is not
\* guarded: when it raises, extract raises (threw) before it writes anything.
extract(resp, out, contextKey) ==
  LET Result(mappedValues) ==
        [threw |-> FALSE,
         responses |-> WriteNew(resp, mappedValues),
         result |-> [understood |-> out.understood,
                     extractedValues |-> mappedValues,
                     response |-> out.response,
                     needsClarification |-> out.needsClarification]]
  IN  IF out.threw
      THEN [threw |-> TRUE, responses |-> resp,
            result |-> [understood |-> FALSE, extractedValues |-> <<>>,
                        response |-> Empty, needsClarification |-> FALSE]]
      ELSE Result(mapToPlaceholderKeys(
                    ExtractedValuesRecord(<<>>, out.extractedValues),
                    contextKey))

----------------------------------------------------------------------------
(* Texts *)

\* Fixed sentences of the code, each one token.
AllFilledSentence == <<"All placeholders are filled. I can generate your completed document now.">>
AllCollected      == <<"All information collected! Your document is ready.">>
NothingToSkip     == <<"All placeholders have been filled. There's nothing to skip.">>
NotedThat         == <<"I've noted that.">>

\* The text the question model returns for a prompt about placeholder `key`.
QuestionText(key) == <<"Q:">> \o key

\* The text the explanation agent returns.
Explanation == <<"explanation">>

\* "what"
WhatText == <<"w","h","a","t">>

\* User messages of question and general turns: with a cue word ("what"),
\* with a continuation phrase ("ok"), with neither ("why").
UserMessages == {WhatText, <<"o","k">>, <<"w","h","y">>}

WordChars ==
  {UpperChars[i] : i \in DOMAIN UpperChars} \cup
  {LowerChars[i] : i \in DOMAIN LowerChars} \cup
  {"0","1","2","3","4","5","6","7","8","9","_"}

\* Orchestrator.stripQuestionsFromAcknowledgment
stripQuestionsFromAcknowledgment(text) ==
  LET \* text.indexOf(c) + 1 (0 when absent)
      IndexOf(s, c) ==
        IF \E i \in DOMAIN s : s[i] = c
        THEN CHOOSE i \in DOMAIN s : s[i] = c /\ \A j \in 1..(i - 1) : s[j] # c
        ELSE 0
      \* text.lastIndexOf(c) + 1 (0 when absent)
      LastIndexOf(s, c) ==
        IF \E i \in DOMAIN s : s[i] = c
        THEN CHOOSE i \in DOMAIN s : s[i] = c /\ \A j \in (i + 1)..Len(s) : s[j] # c
        ELSE 0
      questionWords ==
        { <<"w","h","a","t">>, <<"w","h","i","c","h">>, <<"w","h","o">>,
          <<"w","h","e","r","e">>, <<"w","h","e","n">>, <<"w","h","y">>,
          <<"h","o","w">>, <<"i","s">>, <<"a","r","e">>, <<"c","a","n">>,
          <<"w","i","l","l">>, <<"w","o","u","l","d">>,
          <<"s","h","o","u","l","d">>, <<"d","o">>, <<"d","o","e","s">>,
          <<"d","i","d">> }
      \* /\b(what|which|...)\b/i .test(s)
      TestWords(s) ==
        \E w \in questionWords : \E i \in 1..(Len(s) - Len(w) + 1) :
          /\ toLowerCase(SubSeq(s, i, i + Len(w) - 1)) = w
          /\ i = 1 \/ s[i - 1] \notin WordChars
          /\ i + Len(w) - 1 = Len(s) \/ s[i + Len(w)] \notin WordChars
      Max(a, b) == IF a >= b THEN a ELSE b
      Terminated(cleaned) ==
        IF cleaned = Empty THEN NotedThat
        ELSE IF cleaned[Len(cleaned)] \notin {".", "!"}
        THEN cleaned \o <<".">> ELSE cleaned
      Cleaned(beforeQuestion, lastBoundary) ==
        IF lastBoundary > 1
        THEN IF TestWords(trim(SubSeq(beforeQuestion, lastBoundary + 1,
                                      Len(beforeQuestion))))
             THEN trim(SubSeq(beforeQuestion, 1, lastBoundary))
             ELSE trim(beforeQuestion)
        ELSE IF TestWords(trim(beforeQuestion))
             THEN Empty
             ELSE trim(beforeQuestion)
      Cut(beforeQuestion) ==
        Terminated(Cleaned(beforeQuestion,
                           Max(LastIndexOf(beforeQuestion, "."),
                               LastIndexOf(beforeQuestion, "!"))))
      At(questionIndex) ==
        IF questionIndex = 0 THEN trim(text)
        ELSE Cut(SubSeq(text, 1, questionIndex - 1))
  IN  IF text = Empty THEN text ELSE At(IndexOf(text, "?"))

cueWords == { <<"w","h","a","t">>, <<"t","h","a","t">>, <<"t","h","i","s">>,
              <<"m","e","a","n">> }

\* The cue test without its cue words.
HasCueWordNever(userMessage) == FALSE

\* userMessage.toLowerCase().includes('what') || ... 'that' ... 'this' ... 'mean'
HasCueWord(userMessage) ==
  \E w \in cueWords : includes(toLowerCase(userMessage), w)

\* /^(yes|yeah|...|let's continue)\b/i .test(userMessage.toLowerCase().trim())
isContinueRequest(userMessage) ==
  LET normalizedMessage == trim(toLowerCase(userMessage))
      continuePhrases ==
        { <<"y","e","s">>, <<"y","e","a","h">>, <<"y","e","p">>,
          <<"y","u","p">>, <<"s","u","r","e">>, <<"o","k">>,
          <<"o","k","a","y">>, <<"c","o","n","t","i","n","u","e">>,
          <<"l","e","t","'","s"," ","g","o">>,
          <<"l","e","t","'","s"," ","c","o","n","t","i","n","u","e">> }
  IN  \E w \in continuePhrases :
        /\ Len(normalizedMessage) >= Len(w)
        /\ SubSeq(normalizedMessage, 1, Len(w)) = w
        /\ \/ Len(normalizedMessage) = Len(w)
           \/ normalizedMessage[Len(w) + 1] \notin WordChars

\* Orchestrator.getPlaceholderLabel
getPlaceholderLabel(key) ==
  IF HasKeyIn(placeholders, key) /\ FindIn(placeholders, key).label # Empty
  THEN FindIn(placeholders, key).label ELSE key

----------------------------------------------------------------------------
(* QuestionAgent *)

\* The placeholder whose label, type and description go into the prompt of
\* getNextQuestion; Undefined when the fixed sentence is returned instead.
QuestionSubject(resp) == FirstKey(BaseGetUnfilledPlaceholders(resp))

\* getNextQuestion without its test for nothing unfilled.
getNextQuestionAlways(resp) == QuestionText(QuestionSubject(resp))

\* QuestionAgent.getNextQuestion
getNextQuestion(resp) ==
  IF QuestionSubject(resp) = Undefined THEN AllFilledSentence
  ELSE QuestionText(QuestionSubject(resp))

----------------------------------------------------------------------------
(* ValidationAgent *)

InvalidEmail   == <<"Invalid email format">>
ShortAddress   == <<"Address seems short - please include street, city, and state/zip">>
NotFound       == <<"Placeholder not found">>
Implausible    == <<"implausible">>

\* `value.length < 10` of the address check
AddressMinLength == 10

\* ValidationAgent.validateType
validateType(type, value) ==
  LET Digits == {"0","1","2","3","4","5","6","7","8","9"}
      \* /^[^\s@]+@[^\s@]+\.[^\s@]+$/ .test(value)
      emailRegex ==
        \E a \in DOMAIN value : \E d \in DOMAIN value :
          /\ value[a] = "@"
          /\ value[d] = "."
          /\ 1 < a /\ a + 1 < d /\ d < Len(value)
          /\ \A i \in DOMAIN value :
               /\ value[i] \notin Whitespace
               /\ i # a => value[i] # "@"
      \* !isNaN(new Date(value).getTime()), for the date forms of the model:
      \* the ISO form YYYY-MM-DD the extraction prompt asks for.
      ParsesAsDate ==
        /\ Len(value) = 10
        /\ value[5] = "-" /\ value[8] = "-"
        /\ \A i \in {1, 2, 3, 4, 6, 7, 9, 10} : value[i] \in Digits
        /\ LET DigitValue(c) ==
                 CASE c = "0" -> 0 [] c = "1" -> 1 [] c = "2" -> 2 [] c = "3" -> 3
                   [] c = "4" -> 4 [] c = "5" -> 5 [] c = "6" -> 6 [] c = "7" -> 7
                   [] c = "8" -> 8 [] c = "9" -> 9
               month == 10 * DigitValue(value[6]) + DigitValue(value[7])
               day   == 10 * DigitValue(value[9]) + DigitValue(value[10])
           IN  month \in 1..12 /\ day \in 1..31
      \* !isNaN(parseFloat(value.replace(/[^0-9.-]/g, ""))): after the
      \* replacement an optional "-", then a digit, or "." and a digit.
      ParsesAsFloat ==
        LET Numeric(c) == c \in Digits \cup {".", "-"}
            s == SelectSeq(value, Numeric)
            u == IF s # <<>> /\ s[1] = "-" THEN Tail(s) ELSE s
        IN  /\ u # <<>>
            /\ \/ u[1] \in Digits
               \/ u[1] = "." /\ Len(u) >= 2 /\ u[2] \in Digits
      errors ==
        CASE type = "email" ->
               IF emailRegex THEN <<>> ELSE <<InvalidEmail>>
          [] type = "date" ->
               IF ParsesAsDate THEN <<>> ELSE <<<<"Invalid date format">>>>
          [] type = "number" ->
               IF ParsesAsFloat THEN <<>>
               ELSE <<<<"Invalid number format">>>>
          [] type = "currency" ->
               IF ParsesAsFloat THEN <<>>
               ELSE <<<<"Invalid currency format">>>>
          [] type = "text" ->
               IF trim(value) = Empty THEN <<<<"Value cannot be empty">>>> ELSE <<>>
          [] OTHER -> <<>>
      warnings ==
        IF type = "address" /\ Len(value) < AddressMinLength
        THEN <<ShortAddress>> ELSE <<>>
  IN  [isValid |-> errors = <<>>, errors |-> errors, warnings |-> warnings]

\* Answers of the plausibility model: it accepts, it rejects, the call fails.
Stage2Accept == [threw |-> FALSE, isValid |-> TRUE,  errors |-> <<>>, warnings |-> <<>>]
Stage2Reject == [threw |-> FALSE, isValid |-> FALSE, errors |-> <<Implausible>>, warnings |-> <<>>]
Stage2Fails  == [threw |-> TRUE,  isValid |-> TRUE,  errors |-> <<>>, warnings |-> <<>>]


\* session.placeholders.find(p => p.key === placeholderKey) of validateValue,
\* over the placeholder list `ps` of the session.
\* validateValue without the early return of an invalid stage 1.
validateValueStage2Always(ps, placeholderKey, value, stage2) ==
  LET Staged(basicValidation) ==
        IF stage2.threw THEN basicValidation
        ELSE [isValid |-> stage2.isValid, errors |-> stage2.errors,
              warnings |-> stage2.warnings]
  IN  IF ~HasKeyIn(ps, placeholderKey)
      THEN [isValid |-> FALSE, errors |-> <<NotFound>>, warnings |-> <<>>]
      ELSE Staged(validateType(FindIn(ps, placeholderKey).type, value))

\* validateValue with a catch that accepts the value.
validateValueCatchAccepts(ps, placeholderKey, value, stage2) ==
  LET Staged(basicValidation) ==
        IF ~basicValidation.isValid THEN basicValidation
        ELSE IF stage2.threw
        THEN [isValid |-> TRUE, errors |-> <<>>, warnings |-> <<>>]
        ELSE [isValid |-> stage2.isValid, errors |-> stage2.errors,
              warnings |-> stage2.warnings]
  IN  IF ~HasKeyIn(ps, placeholderKey)
      THEN [isValid |-> FALSE, errors |-> <<NotFound>>, warnings |-> <<>>]
      ELSE Staged(validateType(FindIn(ps, placeholderKey).type, value))

\* ValidationAgent.validateValue of a session whose placeholders are `ps`,
\* `stage2` being the answer of the model call: its parsed fields after the
\* defaults (isValid ?? true, errors || [], warnings || []), or the call
\* raises.
validateValueIn(ps, placeholderKey, value, stage2) ==
  LET Staged(basicValidation) ==
        IF ~basicValidation.isValid THEN basicValidation
        ELSE IF stage2.threw THEN basicValidation
        ELSE [isValid |-> stage2.isValid, errors |-> stage2.errors,
              warnings |-> stage2.warnings]
  IN  IF ~HasKeyIn(ps, placeholderKey)
      THEN [isValid |-> FALSE, errors |-> <<NotFound>>, warnings |-> <<>>]
      ELSE Staged(validateType(FindIn(ps, placeholderKey).type, value))

\* ValidationAgent.validateValue of the session of the dialog.
validateValue(placeholderKey, value, stage2) ==
  validateValueIn(placeholders, placeholderKey, value, stage2)

\* validationResults of a handler: one result per extracted pair, in order;
\* the i-th model call gets the i-th answer of `stage2s`.
validationResults(extractedValues, stage2s) ==
  [i \in DOMAIN extractedValues |->
     [key |-> extractedValues[i][1],
      result |-> validateValue(extractedValues[i][1], extractedValues[i][2],
                               stage2s[i])]]


\* errorMessages without the lines of the invalid values.
errorMessagesNone(results) == <<>>

\* The lines `${label}: ${errors.join(", ")}` of the invalid values.
errorMessages(results) ==
  LET Invalid(r) == ~r.result.isValid
      invalid == SelectSeq(results, Invalid)
  IN  [i \in DOMAIN invalid |->
         [label |-> getPlaceholderLabel(invalid[i].key),
          errors |-> invalid[i].result.errors]]

----------------------------------------------------------------------------
(* Orchestrator handlers.  A handler maps the state it starts in and the      *)
(* answers of the model calls it makes to the state it leaves and the         *)
(* OrchestratorResponse it returns.  A message is the sequence of the texts   *)
(* it is assembled from.                                                      *)

RECURSIVE Flatten(_)
Flatten(texts) == IF texts = <<>> THEN <<>> ELSE Head(texts) \o Flatten(Tail(texts))

RECURSIVE ErrorLines(_)
ErrorLines(msgs) ==
  IF msgs = <<>> THEN <<>>
  ELSE Head(msgs).label \o <<":">> \o Flatten(Head(msgs).errors)
       \o ErrorLines(Tail(msgs))

\* "Please correct the following:" and the error lines
ErrorBlock(msgs) == <<"Please correct the following:">> \o ErrorLines(msgs)

\* The answers as handleClarification reads them: of its own extraction call
\* it uses extractedValues and needsClarification only.  The call is given
\* the answers of at most one pair; the call of the re-dispatched answer is
\* given every answer.
FirstAnswers ==
  [threw : {FALSE}, understood : {TRUE},
   extractedValues : {out \in RawOutputs : Len(out) <= 1},
   response : {Empty}, needsClarification : BOOLEAN]

\* The answers of the plausibility calls of a turn, one for each pair; the
\* answers of calls a turn does not make are not enumerated.
Stage2SeqsFor(resp, out, contextKey) ==
  LET Stage2Seqs == [1..MaxPairs -> {Stage2Accept, Stage2Reject, Stage2Fails}]
      \* validateValue reaches the model call for this pair.
      ReachesStage2(key, value) ==
        /\ HasKeyIn(placeholders, key)
        /\ validateType(FindIn(placeholders, key).type, value).isValid
      For(values) ==
        {stage2s \in Stage2Seqs :
           \A i \in 1..MaxPairs :
             (i \notin DOMAIN values \/ ~ReachesStage2(values[i][1], values[i][2]))
               => stage2s[i] = Stage2Accept}
  IN  For(extract(resp, out, contextKey).result.extractedValues)

Envelope(message, complete, hasValues, values, needsClar, queryType) ==
  [message |-> message, isComplete |-> complete,
   hasExtractedValues |-> hasValues, extractedValues |-> values,
   needsClarification |-> needsClar, queryType |-> queryType]


NoEnvelope == Envelope(<<>>, FALSE, FALSE, <<>>, "absent", "absent")

\* The fields a handler leaves when it returns: session, Orchestrator fields,
\* envelope, and what the question agent was asked for.
Outcome(resp, skipped, cpk, lq, env, generated, subject, raw, hint) ==
  [responses |-> resp, skipped |-> skipped, currentPlaceholderKey |-> cpk,
   lastQuestion |-> lq, env |-> env, generated |-> generated,
   subject |-> subject, raw |-> raw, hint |-> hint, aborted |-> "none"]

\* The fields a handler leaves when the call `call` raises: no handler
\* catches, so the assignments made before the call stay and no envelope is
\* returned.
Aborted(resp, skipped, cpk, lq, call, raw, hint) ==
  [responses |-> resp, skipped |-> skipped, currentPlaceholderKey |-> cpk,
   lastQuestion |-> lq, env |-> NoEnvelope, generated |-> FALSE,
   subject |-> Undefined, raw |-> raw, hint |-> hint, aborted |-> call]

\* The question model is called, and raises, when the question service is
\* down and a placeholder is left to ask about.
QuestionFails(resp, down) ==
  down = "question" /\ QuestionSubject(resp) # Undefined

\* Orchestrator.handleAnswer
handleAnswer(resp, skipped, cpk, lq, out, stage2s, queryType, down) ==
  LET placeholderForExtraction ==
        IF Truthy(cpk) THEN cpk
        ELSE FirstKey(getUnfilledPlaceholders(resp, skipped))
      Advance(ex, skipped1, responseMessage, nextQuestion, understood) ==
        Outcome(ex.responses, skipped1,
          FirstKey(getUnfilledPlaceholders(ex.responses, skipped1)),
          nextQuestion,
          Envelope(
            (IF ~understood /\ responseMessage = <<>> THEN <<<<"I need a bit more information. Could you clarify?">>>>
             ELSE responseMessage) \o <<nextQuestion>>,
            FALSE, TRUE, ex.result.extractedValues, IF ~understood THEN "true" ELSE "false",
            queryType),
          TRUE, QuestionSubject(ex.responses), out.extractedValues,
          placeholderForExtraction)
      Respond(ex, skipped1, responseMessage) ==
        IF isComplete(ex.responses)
        THEN Outcome(ex.responses, skipped1, cpk, lq,
               Envelope(responseMessage \o <<AllCollected>>, TRUE, TRUE,
                        ex.result.extractedValues, "absent", "absent"),
               FALSE, Undefined, out.extractedValues, placeholderForExtraction)
        ELSE IF QuestionFails(ex.responses, down)
        THEN Aborted(ex.responses, skipped1, cpk, lq, "question",
                     out.extractedValues, placeholderForExtraction)
        ELSE Advance(ex, skipped1, responseMessage,
                     getNextQuestion(ex.responses),
                     ex.result.understood /\ ~ex.result.needsClarification)
      Validated(ex, results) ==
        Respond(ex, RemoveExtracted(skipped, ex.result.extractedValues),
          \* the acknowledgment is a message part unless it is empty
          (LET Parts(text) == IF text = Empty THEN <<>> ELSE <<text>>
           IN  Parts(stripQuestionsFromAcknowledgment(ex.result.response))) \o
          (IF \E i \in DOMAIN results : ~results[i].result.isValid
           THEN <<ErrorBlock(errorMessages(results))>> ELSE <<>>))
      Extracted(ex) ==
        IF ex.threw
        THEN Aborted(resp, skipped, cpk, lq, "extract", out.extractedValues,
                     placeholderForExtraction)
        ELSE Validated(ex,
               validationResults(ex.result.extractedValues, stage2s))
  IN  Extracted(extract(resp, out, placeholderForExtraction))

\* A question handler that also marks the next unfilled placeholder as
\* skipped.
handleQuestionSkipping(resp, skipped, cpk, lq, userMessage, down) ==
  Outcome(resp,
          Append(skipped, FirstKey(getUnfilledPlaceholders(resp, skipped))),
          cpk, lq,
          Envelope(<<Explanation>>, FALSE, FALSE, <<>>, "absent", "question"),
          FALSE, Undefined, <<>>, Undefined)

\* Orchestrator.handleQuestion
handleQuestion(resp, skipped, cpk, lq, userMessage, down) ==
  LET Asked(nextQuestion) ==
        Outcome(resp, skipped,
          FirstKey(getUnfilledPlaceholders(resp, skipped)), nextQuestion,
          Envelope(<<Explanation, nextQuestion>>, FALSE, FALSE, <<>>, "absent",
                   "question"),
          TRUE, QuestionSubject(resp), <<>>, Undefined)
  IN  IF down = "explain"
      THEN Aborted(resp, skipped, cpk, lq, "explain", <<>>, Undefined)
      ELSE IF ~isComplete(resp)
      THEN IF Truthy(lq) /\ HasCueWord(userMessage)
           THEN Outcome(resp, skipped, cpk, lq,
                  Envelope(<<Explanation, lq>>, FALSE, FALSE, <<>>, "absent",
                           "question"),
                  FALSE, Undefined, <<>>, Undefined)
           ELSE IF QuestionFails(resp, down)
           THEN Aborted(resp, skipped,
                  FirstKey(getUnfilledPlaceholders(resp, skipped)), lq,
                  "question", <<>>, Undefined)
           ELSE Asked(getNextQuestion(resp))
      ELSE Outcome(resp, skipped, cpk, lq,
             Envelope(<<Explanation>>, FALSE, FALSE, <<>>, "absent", "question"),
             FALSE, Undefined, <<>>, Undefined)

\* Orchestrator.handleClarification; `first` answers the extraction call of
\* the handler itself, `out` the one of handleAnswer when it re-dispatches.
handleClarification(resp, skipped, cpk, lq, first, out, stage2s, down) ==
  LET Asked(after, nextQuestion) ==
        Outcome(after, skipped,
          FirstKey(getUnfilledPlaceholders(after, skipped)), nextQuestion,
          Envelope(<<Explanation, nextQuestion>>, FALSE, FALSE, <<>>, "true",
                   "clarification"),
          TRUE, QuestionSubject(after), first.extractedValues, cpk)
      Explained(ex) ==
        IF ex.result.extractedValues # <<>> /\ ~ex.result.needsClarification
        THEN handleAnswer(ex.responses, skipped, cpk, lq, out, stage2s,
                          "answer", down)
        ELSE IF ~isComplete(ex.responses)
        THEN IF Truthy(lq)
             THEN Outcome(ex.responses, skipped, cpk, lq,
                    Envelope(<<Explanation, lq>>, FALSE, FALSE, <<>>, "true",
                             "clarification"),
                    FALSE, Undefined, first.extractedValues, cpk)
             ELSE IF QuestionFails(ex.responses, down)
             THEN Aborted(ex.responses, skipped,
                    FirstKey(getUnfilledPlaceholders(ex.responses, skipped)),
                    lq, "question", first.extractedValues, cpk)
             ELSE Asked(ex.responses, getNextQuestion(ex.responses))
        ELSE Outcome(ex.responses, skipped, cpk, lq,
               Envelope(<<Explanation>>, FALSE, FALSE, <<>>, "true",
                        "clarification"),
               FALSE, Undefined, first.extractedValues, cpk)
      Extracted(ex) ==
        IF ex.threw
        THEN Aborted(resp, skipped, cpk, lq, "extract", first.extractedValues,
                     cpk)
        ELSE IF down = "explain"
        THEN Aborted(ex.responses, skipped, cpk, lq, "explain",
                     first.extractedValues, cpk)
        ELSE Explained(ex)
  IN  Extracted(extract(resp, first, cpk))

\* Orchestrator.handleCorrection
handleCorrection(resp, skipped, cpk, lq, out, stage2s, down) ==
  LET Respond(ex, skipped1, responseMessage) ==
        IF ~isComplete(ex.responses)
        THEN IF QuestionFails(ex.responses, down)
             THEN Aborted(ex.responses, skipped1,
                    FirstKey(getUnfilledPlaceholders(ex.responses, skipped1)),
                    lq, "question", out.extractedValues, cpk)
             ELSE Outcome(ex.responses, skipped1,
                    FirstKey(getUnfilledPlaceholders(ex.responses, skipped1)),
                    getNextQuestion(ex.responses),
                    Envelope(responseMessage \o
                               <<getNextQuestion(ex.responses)>>,
                             FALSE, TRUE, ex.result.extractedValues, "absent",
                             "correction"),
                    TRUE, QuestionSubject(ex.responses), out.extractedValues,
                    cpk)
        ELSE Outcome(ex.responses, skipped1, cpk, lq,
               Envelope(responseMessage \o <<AllCollected>>, TRUE, TRUE,
                        ex.result.extractedValues, "absent", "correction"),
               FALSE, Undefined, out.extractedValues, cpk)
      Validated(ex, results) ==
        Respond(ex, RemoveExtracted(skipped, ex.result.extractedValues),
          <<IF ex.result.response = Empty THEN <<"I've updated that information.">>
            ELSE ex.result.response>> \o
          (IF \E i \in DOMAIN results : ~results[i].result.isValid
           THEN <<ErrorBlock(errorMessages(results))>> ELSE <<>>))
      Extracted(ex) ==
        IF ex.threw
        THEN Aborted(resp, skipped, cpk, lq, "extract", out.extractedValues,
                     cpk)
        ELSE Validated(ex,
               validationResults(ex.result.extractedValues, stage2s))
  IN  Extracted(extract(resp, out, cpk))

\* Orchestrator.handleGeneral
handleGeneral(resp, skipped, cpk, lq, userMessage, down) ==
  LET Asked(nextQuestion) ==
        Outcome(resp, skipped,
          FirstKey(getUnfilledPlaceholders(resp, skipped)), nextQuestion,
          Envelope(<<nextQuestion>>, FALSE, FALSE, <<>>, "absent", "general"),
          TRUE, QuestionSubject(resp), <<>>, Undefined)
      Handled(isContinueRequestNow, complete) ==
        IF isContinueRequestNow /\ ~complete
        THEN IF QuestionFails(resp, down)
             THEN Aborted(resp, skipped,
                    FirstKey(getUnfilledPlaceholders(resp, skipped)), lq,
                    "question", <<>>, Undefined)
             ELSE Asked(getNextQuestion(resp))
        ELSE IF down = "explain"
        THEN Aborted(resp, skipped, cpk, lq, "explain", <<>>, Undefined)
        ELSE IF ~complete /\ ~isContinueRequestNow
        THEN Outcome(resp, skipped, cpk, lq,
               Envelope(<<Explanation, <<"Would you like to continue filling out the document?">>>>, FALSE, FALSE, <<>>,
                        "absent", "general"),
               FALSE, Undefined, <<>>, Undefined)
        ELSE Outcome(resp, skipped, cpk, lq,
               Envelope(<<Explanation>>, FALSE, FALSE, <<>>, "absent",
                        "general"),
               FALSE, Undefined, <<>>, Undefined)
  IN  Handled(isContinueRequest(userMessage), isComplete(resp))

\* Orchestrator.handleSkip
handleSkip(resp, skipped, cpk, lq, down) ==
  LET Skipped(placeholderToSkip, skipped1, skipMessage) ==
        LET SkippedUnfilled(p) == InSeq(skipped1, p.key) /\ ~Filled(resp, p.key)
            Resume(skippedUnfilled) ==
              IF skippedUnfilled # <<>>
              THEN IF QuestionFails(resp, down)
                   THEN Aborted(resp, skipped1, skippedUnfilled[1].key, lq,
                                "question", <<>>, Undefined)
                   ELSE Outcome(resp, skipped1, skippedUnfilled[1].key,
                          getNextQuestion(resp),
                          Envelope(<<skipMessage, <<"Now let's finish the remaining fields:">>,
                                     getNextQuestion(resp)>>,
                                   FALSE, FALSE, <<>>, "absent", "general"),
                          TRUE, QuestionSubject(resp), <<>>, Undefined)
              ELSE Outcome(resp, skipped1, cpk, lq,
                     Envelope(<<skipMessage, AllCollected>>, TRUE, FALSE, <<>>,
                              "absent", "general"),
                     FALSE, Undefined, <<>>, Undefined)
            Advance(nextQuestion) ==
              Outcome(resp, skipped1,
                FirstKey(getUnfilledPlaceholders(resp, skipped1)),
                nextQuestion,
                Envelope(<<skipMessage, nextQuestion>>, FALSE, FALSE, <<>>,
                         "absent", "general"),
                TRUE, QuestionSubject(resp), <<>>, Undefined)
        IN  IF isComplete(resp)
            THEN Resume(SelectSeq(placeholders, SkippedUnfilled))
            ELSE IF QuestionFails(resp, down)
            THEN Aborted(resp, skipped1,
                   FirstKey(getUnfilledPlaceholders(resp, skipped1)), lq,
                   "question", <<>>, Undefined)
            ELSE Advance(getNextQuestion(resp))
      Chosen(placeholderToSkip) ==
        IF ~Truthy(placeholderToSkip)
        THEN Outcome(resp, skipped, cpk, lq,
               Envelope(<<NothingToSkip>>, TRUE, FALSE, <<>>, "absent",
                        "general"),
               FALSE, Undefined, <<>>, Undefined)
        ELSE Skipped(placeholderToSkip,
               IF InSeq(skipped, placeholderToSkip) THEN skipped
               ELSE Append(skipped, placeholderToSkip),
               \* `I've skipped "<label>" for now. We'll come back to it later.`
               <<"Skipped:">> \o getPlaceholderLabel(placeholderToSkip))
  IN  Chosen(IF Truthy(cpk) THEN cpk
             ELSE FirstKey(getUnfilledPlaceholders(resp, skipped)))

----------------------------------------------------------------------------
(* The state machine.  A step is one call of Orchestrator.processMessage,    *)
(* named after the queryType the classifier returned; `turn` holds the call   *)
(* and the envelope it returned until the caller has taken the envelope.      *)

\* The state a turn started in.
Before ==
  [responses |-> responses, skipped |-> skippedPlaceholders,
   currentPlaceholderKey |-> currentPlaceholderKey,
   lastQuestion |-> lastQuestion]

NoTurn ==
  [handler |-> "none", redispatched |-> FALSE, repeat |-> FALSE,
   before |-> [responses |-> <<>>, skipped |-> <<>>,
               currentPlaceholderKey |-> Undefined,
               lastQuestion |-> Undefined],
   env |-> NoEnvelope, generated |-> FALSE, subject |-> Undefined,
   out |-> NoAnswer, stage2s |-> [i \in 1..MaxPairs |-> Stage2Accept],
   hint |-> Undefined, first |-> <<>>, aborted |-> "none",
   classifierRaised |-> FALSE, userMessage |-> Empty]

\* `handler` is the handler processMessage dispatched to, `out` and `stage2s`
\* the answers of the last extraction call and of the plausibility calls;
\* `repeat` says that this answer turn repeats the answer turn before it, whose
\* extractedValues were `first`; `aborted` names the call that raised out of
\* processMessage, if one did, `classifierRaised` says that the model call of
\* the classifier raised, `userMessage` is the text of the message in the
\* turns whose handler reads it.
CommitWith(handler, o, out, stage2s, redispatched, repeat, first, userMessage) ==
  /\ responses' = o.responses
  /\ skippedPlaceholders' = o.skipped
  /\ currentPlaceholderKey' = o.currentPlaceholderKey
  /\ lastQuestion' = o.lastQuestion
  /\ turn' = [handler |-> handler, redispatched |-> redispatched,
              repeat |-> repeat, before |-> Before, env |-> o.env,
              generated |-> o.generated, subject |-> o.subject,
              out |-> out, stage2s |-> stage2s, hint |-> o.hint,
              first |-> first, aborted |-> o.aborted,
              classifierRaised |-> FALSE, userMessage |-> userMessage]
  /\ UNCHANGED <<validation, requests, explained, mapping,
                 detection, download, client>>

\* A turn of a handler that does not read the text of the message.
Commit(handler, o, out, stage2s, redispatched, repeat, first) ==
  CommitWith(handler, o, out, stage2s, redispatched, repeat, first, Empty)

\* No validateValue call is under study.
NoValidation ==
  [key |-> Undefined, value |-> Empty, stage2 |-> Stage2Accept,
   returned |-> FALSE,
   result |-> [isValid |-> FALSE, errors |-> <<>>, warnings |-> <<>>]]

\* The requests of the chat route: two clients may post at the same time.
Requests == {"r1", "r2"}

\* A request that has not been received, or has been replied to.
IdleRequest ==
  [pc |-> "idle", status |-> "none", isComplete |-> FALSE,
   seen |-> <<>>, before |-> <<>>, after |-> <<>>, extractedValues |-> <<>>]

NoRequests == [r \in Requests |-> IdleRequest]

\* No explain call is under study.
NoExplained == [raw |-> Empty, returned |-> FALSE, text |-> Empty]

\* No mapToPlaceholderKeys call is under study.
NoMapping == [extracted |-> <<>>, returned |-> FALSE, result |-> <<>>]

Init ==
  /\ responses = <<>>
  /\ skippedPlaceholders = <<>>
  /\ currentPlaceholderKey = Undefined
  /\ lastQuestion = Undefined
  /\ turn = NoTurn
  /\ validation = NoValidation
  /\ requests = NoRequests
  /\ explained = NoExplained
  /\ mapping = NoMapping
  /\ detection = <<>>
  /\ download = <<>>
  /\ client = <<>>

\* The hint handleAnswer passes to extract.
AnswerHint(resp, skipped, cpk) ==
  IF Truthy(cpk) THEN cpk ELSE FirstKey(getUnfilledPlaceholders(resp, skipped))

Idle == turn.handler = "none"

\* The query types of the switch of processMessage.
QueryTypes ==
  {"answer", "question", "clarification", "correction", "skip", "general"}

\* The answers of the classifier model: a query type, none (""), or the call
\* raises.
ClassifierFails == [threw |-> TRUE, queryType |-> ""]

\* ClassifierAgent.classify: queryType: parsed.queryType || "answer"; the
\* call of the model is not guarded.
classify(parsed) ==
  [threw |-> parsed.threw,
   queryType |-> IF parsed.queryType = "" THEN "answer" ELSE parsed.queryType]

\* The query types classify returns in the turns processMessage dispatches to
\* `handler`.  Dispatch is the switch of processMessage: the handler of a
\* query type, handleAnswer by default.
ClassifiedAs(handler) ==
  LET Dispatch(queryType) ==
        IF queryType \in QueryTypes THEN queryType ELSE "answer"
  IN  {classify(parsed).queryType :
         parsed \in {p \in ([threw : {FALSE}, queryType : QueryTypes \cup {""}] \cup {ClassifierFails}) :
                       ~classify(p).threw
                       /\ Dispatch(classify(p).queryType) = handler}}

\* The services a turn may find down, besides the extraction and the
\* plausibility model, whose failures are among their answers.
QuestionDown == {"none", "question"}
ExplainDown  == {"none", "explain", "question"}

\* The answers of the extraction model a handler is given.  When the
\* question call raises, the turn leaves what the extracted values make it
\* leave, whatever the other fields of the answer are.  An answer is a
\* parsedResult; its acknowledgment (`response`) is empty or "Ok.".
AnswersWhen(down) ==
  IF down = "none"
  THEN [threw : {FALSE}, understood : BOOLEAN, extractedValues : RawOutputs,
        response : {Empty, <<"O","k",".">>}, needsClarification : BOOLEAN]
       \cup {ExtractionFails}
  ELSE [threw : {FALSE}, understood : {TRUE}, extractedValues : RawOutputs,
        response : {Empty}, needsClarification : {FALSE}]

\* classify raises: processMessage raises before it dispatches.
ClassifyFails ==
  /\ Idle
  /\ classify(ClassifierFails).threw
  /\ turn' = [NoTurn EXCEPT !.handler = "unhandled", !.before = Before,
                            !.aborted = "classify",
                            !.classifierRaised = TRUE]
  /\ UNCHANGED <<responses, skippedPlaceholders, currentPlaceholderKey,
                 lastQuestion, validation, requests, explained, mapping,
                 detection, download, client>>

Answer ==
  /\ Idle
  /\ \E queryType \in ClassifiedAs("answer") :
     \E down \in QuestionDown :
     \E out \in AnswersWhen(down) :
       \E stage2s \in
            IF down = "none"
            THEN Stage2SeqsFor(responses, out,
                   AnswerHint(responses, skippedPlaceholders,
                              currentPlaceholderKey))
            ELSE {NoTurn.stage2s} :
         Commit("answer",
                handleAnswer(responses, skippedPlaceholders,
                             currentPlaceholderKey, lastQuestion, out, stage2s,
                             queryType, down),
                out, stage2s, FALSE, FALSE, <<>>)

\* The user sends the message of the answer turn just returned once more and
\* the models answer as they did.
RepeatAnswer ==
  /\ turn.handler = "answer"
  /\ turn.aborted = "none"
  /\ Commit("answer",
            handleAnswer(responses, skippedPlaceholders, currentPlaceholderKey,
                         lastQuestion, turn.out, turn.stage2s, "answer",
                         "none"),
            turn.out, turn.stage2s, FALSE, TRUE, turn.env.extractedValues)

Question ==
  /\ Idle
  /\ ClassifiedAs("question") # {}
  /\ \E userMessage \in UserMessages : \E down \in ExplainDown :
       CommitWith("question",
                  handleQuestion(responses, skippedPlaceholders,
                                 currentPlaceholderKey, lastQuestion,
                                 userMessage, down),
                  NoAnswer, NoTurn.stage2s, FALSE, FALSE, <<>>, userMessage)

Clarification ==
  /\ Idle
  /\ ClassifiedAs("clarification") # {}
  /\ \E down \in ExplainDown :
     \E first \in IF down = "none" THEN FirstAnswers \cup {ExtractionFails}
                  ELSE FirstAnswers :
       LET Dispatched(ex, redispatched) ==
             \E out \in IF redispatched THEN AnswersWhen(down) ELSE {first} :
               \E stage2s \in
                    IF redispatched /\ down = "none"
                    THEN Stage2SeqsFor(ex.responses, out,
                           AnswerHint(ex.responses, skippedPlaceholders,
                                      currentPlaceholderKey))
                    ELSE {NoTurn.stage2s} :
                 Commit("clarification",
                        handleClarification(responses, skippedPlaceholders,
                                            currentPlaceholderKey, lastQuestion,
                                            first, out, stage2s, down),
                        out, stage2s, redispatched, FALSE, <<>>)
           Extracted(ex) ==
             Dispatched(ex, /\ ~ex.threw
                            /\ down # "explain"
                            \* the re-dispatch test of handleClarification
                            /\ ex.result.extractedValues # <<>>
                            /\ ~first.needsClarification)
       IN  Extracted(extract(responses, first, currentPlaceholderKey))

Correction ==
  /\ Idle
  /\ ClassifiedAs("correction") # {}
  /\ \E down \in QuestionDown :
     \E out \in AnswersWhen(down) :
       \E stage2s \in
            IF down = "none"
            THEN Stage2SeqsFor(responses, out, currentPlaceholderKey)
            ELSE {NoTurn.stage2s} :
         Commit("correction",
                handleCorrection(responses, skippedPlaceholders,
                                 currentPlaceholderKey, lastQuestion, out,
                                 stage2s, down),
                out, stage2s, FALSE, FALSE, <<>>)

Skip ==
  /\ Idle
  /\ ClassifiedAs("skip") # {}
  /\ \E down \in QuestionDown :
       Commit("skip",
              handleSkip(responses, skippedPlaceholders, currentPlaceholderKey,
                         lastQuestion, down),
              NoAnswer, NoTurn.stage2s, FALSE, FALSE, <<>>)

General ==
  /\ Idle
  /\ ClassifiedAs("general") # {}
  /\ \E userMessage \in UserMessages : \E down \in ExplainDown :
       CommitWith("general",
                  handleGeneral(responses, skippedPlaceholders,
                                currentPlaceholderKey, lastQuestion,
                                userMessage, down),
                  NoAnswer, NoTurn.stage2s, FALSE, FALSE, <<>>, userMessage)

\* The caller takes the envelope, or the error when the turn raised; the
\* session and the Orchestrator fields stay.
Deliver ==
  /\ ~Idle
  /\ turn' = NoTurn
  /\ UNCHANGED <<responses, skippedPlaceholders, currentPlaceholderKey,
                 lastQuestion, validation, requests, explained, mapping,
                 detection, download, client>>

Next ==
  \/ ClassifyFails
  \/ Answer
  \/ RepeatAnswer
  \/ Question
  \/ Clarification
  \/ Correction
  \/ Skip
  \/ General
  \/ Deliver

Spec == Init /\ [][Next]_vars

----------------------------------------------------------------------------
(* ValidationAgent.validateValue on its own: a session with a placeholder of  *)
(* every type validateType knows, one call per behaviour.                     *)

email_key    == <<"e","m","a","i","l">>
address_key  == <<"a","d","d","r","e","s","s">>

ValidationPlaceholders ==
  << [key |-> company_name, label |-> CompanyNameLabel, type |-> "text"],
     [key |-> signing_date, label |-> SigningDateLabel, type |-> "date"],
     [key |-> email_key,    label |-> email_key,        type |-> "email"],
     [key |-> <<"a","m","o","u","n","t">>,
      label |-> <<"a","m","o","u","n","t">>, type |-> "number"],
     [key |-> <<"p","r","i","c","e">>,
      label |-> <<"p","r","i","c","e">>, type |-> "currency"],
     [key |-> address_key,  label |-> address_key,      type |-> "address"] >>

NotAnEmail   == <<"n","o","t","-","a","n","-","e","m","a","i","l">>
ShortStreet  == <<"1"," ","M","a","i","n"," ","S","t">>

InitValidation ==
  /\ responses = <<>>
  /\ skippedPlaceholders = <<>>
  /\ currentPlaceholderKey = Undefined
  /\ lastQuestion = Undefined
  /\ turn = NoTurn
  /\ LET \* every placeholder key and a key the session has no
         \* placeholder for
         keys ==
           {ValidationPlaceholders[i].key : i \in DOMAIN ValidationPlaceholders}
             \cup {<<"m","i","s","s","i","n","g">>}
         values ==
           {NotAnEmail, IsoDate, ShortStreet, Acme, Blank,
            <<"a","@","b",".","c","o">>, <<"$","5">>,
            <<"1"," ","M","a","i","n"," ","S","t",","," ","N","Y">>}
         \* the answers of the plausibility model: any isValid with any
         \* errors and warnings (the schema requires the three fields and
         \* does not relate them), or the call raises
         answers ==
           [threw : {FALSE}, isValid : BOOLEAN,
            errors : {<<>>, <<Implausible>>},
            warnings : {<<>>, <<<<"unusual">>>>}] \cup {Stage2Fails}
     IN  validation \in
           [key : keys, value : values, stage2 : answers,
            returned : {FALSE}, result : {NoValidation.result}]
  /\ requests = NoRequests
  /\ explained = NoExplained
  /\ mapping = NoMapping
  /\ detection = <<>>
  /\ download = <<>>
  /\ client = <<>>

\* validateValue(key, value) runs and returns.
Validate ==
  /\ ~validation.returned
  /\ validation' =
       [validation EXCEPT
          !.returned = TRUE,
          !.result = validateValueIn(ValidationPlaceholders, validation.key,
                                     validation.value, validation.stage2)]
  /\ UNCHANGED <<responses, skippedPlaceholders, currentPlaceholderKey,
                 lastQuestion, turn, requests, explained, mapping,
                 detection, download, client>>

SpecValidation == InitValidation /\ [][Validate]_vars

----------------------------------------------------------------------------
(* The chat route (app/api/chat/route.ts) and the ConversationManager it      *)
(* calls.  The store keeps one object per session id and getSession hands    *)
(* out that object, so `responses` is the responses of the stored session;   *)
(* a request is suspended at each model call it awaits.                       *)

\* The pairs the extraction model may return to processUserResponse: the
\* first placeholder under a synonym and under its label, the second under
\* its key, and a key that matches no placeholder.
\* The answers of the structured model carry up to MaxPairs of them, or its
\* call raises.
ChatAnswers ==
  LET pairs == { <<company, Acme>>, <<CompanyNameLabel, Beta>>,
                 <<signing_date, IsoDate>>, <<name, Beta>> }
  IN  [threw : {FALSE}, understood : BOOLEAN,
       extractedValues : UNION {[1..n -> pairs] : n \in 0..MaxPairs},
       response : {Empty}, needsClarification : BOOLEAN] \cup {ExtractionFails}

\* The loop over newKeys: one assignment per key, in order.  A pair is
\* stored under the key of the placeholder whose normalized key or label is
\* the mapped key, else under the raw key.
RECURSIVE ChatWrites(_, _)
ChatWrites(resp, entries) ==
  LET ChatTargetKey(key) ==
        LET Stored(matchingPlaceholder) ==
              IF matchingPlaceholder = 0 THEN key
              ELSE placeholders[matchingPlaceholder].key
        IN  Stored(FirstMatchIn(placeholders, MappedKey(key), 1))
      \* this.session.responses[k] = v
      Assign(k, v) ==
        [j \in DOMAIN resp \cup {k} |-> IF j = k THEN v ELSE resp[j]]
  IN  IF entries = <<>> THEN resp
      ELSE ChatWrites(Assign(ChatTargetKey(Head(entries)[1]), Head(entries)[2]),
                      Tail(entries))

\* ConversationManager.processUserResponse on the model answer `out`: the
\* responses it leaves and the value it returns.  The call of the model is
\* not guarded.
processUserResponse(resp, out) ==
  LET Result(extractedValuesRecord, after) ==
        [threw |-> FALSE, responses |-> after,
         understood |-> out.understood,
         extractedValues |-> extractedValuesRecord,
         needsClarification |-> out.needsClarification,
         isComplete |-> isComplete(after)]
      Mapped(extractedValuesRecord) ==
        LET IsNew(e) == ~Filled(resp, e[1])
        IN  Result(extractedValuesRecord,
                   ChatWrites(resp, SelectSeq(extractedValuesRecord, IsNew)))
  IN  IF out.threw
      THEN [threw |-> TRUE, responses |-> resp, understood |-> FALSE,
            extractedValues |-> <<>>, needsClarification |-> FALSE,
            isComplete |-> FALSE]
      ELSE Mapped(ExtractedValuesRecord(<<>>, out.extractedValues))

\* The session ids a client may post: the id of the stored session and an
\* id the store does not have.
StoredSession == "s1"

\* POST up to the model call of processUserResponse: getSession, 404 when
\* the store has no such session, else a new ConversationManager on the
\* stored session object.
Receive(r) ==
  /\ requests[r].pc = "idle"
  /\ \E sessionId \in {StoredSession, "unknown"} :
       requests' =
         [requests EXCEPT ![r] =
            IF sessionId = StoredSession
            THEN [IdleRequest EXCEPT !.pc = "extracting", !.seen = responses]
            ELSE [IdleRequest EXCEPT !.pc = "done", !.status = "404"]]
  /\ UNCHANGED <<responses, skippedPlaceholders, currentPlaceholderKey,
                 lastQuestion, turn, validation, explained, mapping,
                 detection, download, client>>

\* The extraction model answers: the rest of processUserResponse,
\* updateSession, and either the reply of a complete session, the call of
\* getNextQuestion when the conversation continues and a placeholder is
\* unfilled, or the reply without a new question.  A raised call is caught
\* by the route (500).
Extracted(r) ==
  /\ requests[r].pc = "extracting"
  /\ \E out \in ChatAnswers :
       LET Processed(result) ==
             LET shouldContinue ==
                   \/ result.extractedValues # <<>>
                   \/ (~result.needsClarification /\ result.understood)
                 Step(pc, status) ==
                   [IdleRequest EXCEPT
                      !.pc = pc, !.status = status,
                      !.isComplete = result.isComplete,
                      !.seen = requests[r].seen, !.before = responses,
                      !.after = result.responses,
                      !.extractedValues = result.extractedValues]
             IN  /\ responses' = result.responses
                 /\ requests' =
                      [requests EXCEPT ![r] =
                         IF result.threw THEN Step("done", "500")
                         ELSE IF result.isComplete THEN Step("done", "200")
                         ELSE IF shouldContinue
                         THEN Step("asking", "none")
                         ELSE Step("done", "200")]
       IN  Processed(processUserResponse(responses, out))
  /\ UNCHANGED <<skippedPlaceholders, currentPlaceholderKey, lastQuestion,
                 turn, validation, explained, mapping,
                 detection, download, client>>

\* ConversationManager.getNextQuestion returns: the question model answered,
\* or its call raised and the route caught it.
Asked(r) ==
  /\ requests[r].pc = "asking"
  /\ \E raised \in BOOLEAN :
       requests' =
         [requests EXCEPT ![r].pc = "done",
                          ![r].status = IF raised THEN "500" ELSE "200"]
  /\ UNCHANGED <<responses, skippedPlaceholders, currentPlaceholderKey,
                 lastQuestion, turn, validation, explained, mapping,
                 detection, download, client>>

\* The reply reaches the client.
Reply(r) ==
  /\ requests[r].pc = "done"
  /\ requests' = [requests EXCEPT ![r] = IdleRequest]
  /\ UNCHANGED <<responses, skippedPlaceholders, currentPlaceholderKey,
                 lastQuestion, turn, validation, explained, mapping,
                 detection, download, client>>

InitChat ==
  /\ responses = <<>>
  /\ skippedPlaceholders = <<>>
  /\ currentPlaceholderKey = Undefined
  /\ lastQuestion = Undefined
  /\ turn = NoTurn
  /\ validation = NoValidation
  /\ requests = NoRequests
  /\ explained = NoExplained
  /\ mapping = NoMapping
  /\ detection = <<>>
  /\ download = <<>>
  /\ client = <<>>

NextChat ==
  \E r \in Requests :
    \/ Receive(r)
    \/ Extracted(r)
    \/ Asked(r)
    \/ Reply(r)

SpecChat == InitChat /\ [][NextChat]_vars

----
(* Properties.  They are stated on the state a turn leaves: `turn` holds the  *)
(* envelope and the state the turn started in.                                *)

\* A turn has ended, with an envelope or with an error, and the caller has not
\* taken it yet.
Ended == turn.handler # "none"

\* A turn has returned and its envelope has not been taken yet.
Returned == Ended /\ turn.aborted = "none"

\* The calls to the agents processMessage made in the turn that ended, in
\* the order of the awaits of the handler: classify, then per handler
\* extract, explain, validateValue (one per mapped value) and
\* getNextQuestion's model call.
TurnCalls ==
  LET asked ==
        IF turn.generated \/ turn.aborted = "question"
        THEN <<"question">> ELSE <<>>
      Validates(mapped) == [i \in DOMAIN mapped |-> "validate"]
      answered ==
        IF turn.aborted = "extract" THEN <<"extract">>
        ELSE <<"extract">>
             \o Validates(mapToPlaceholderKeys(
                  ExtractedValuesRecord(<<>>, turn.out.extractedValues),
                  turn.hint))
             \o asked
  IN  <<"classify">> \o
      CASE turn.handler \in {"answer", "correction"} -> answered
        [] turn.handler = "question" -> <<"explain">> \o asked
        [] turn.handler = "clarification" ->
             IF turn.redispatched THEN <<"extract", "explain">> \o answered
             ELSE IF turn.aborted = "extract" THEN <<"extract">>
             ELSE <<"extract", "explain">> \o asked
        [] turn.handler = "skip" -> asked
        [] turn.handler = "general" ->
             IF asked # <<>> THEN asked ELSE <<"explain">>
        [] OTHER -> <<>>

\* responses has an entry under k with a character that is not whitespace.
NonBlankEntry(resp, k) ==
  k \in DOMAIN resp /\ \E i \in DOMAIN resp[k] : resp[k][i] \notin Whitespace

\* Every placeholder key has a non-blank entry.
AllFilled(resp) ==
  \A i \in DOMAIN placeholders : NonBlankEntry(resp, placeholders[i].key)

\* C1: an envelope with isComplete = true is returned only when every
\* placeholder key has a non-blank entry in responses; entries under other
\* keys do not count.
C1_CompleteOnlyWhenAllFilled ==
  turn.env.isComplete => AllFilled(responses)

\* A completing turn of a session that also holds an entry under a key that
\* is no placeholder key.
C1_Witness ==
  /\ turn.env.isComplete
  /\ \E k \in DOMAIN responses : k \notin PlaceholderKeys

\* C2: whenever every placeholder key has a non-blank entry when a turn ends,
\* the envelope has isComplete = true and its message signals completion.
C2_AllFilledIsReported ==
  (Returned /\ AllFilled(responses)) =>
    /\ turn.env.isComplete
    /\ \E i \in DOMAIN turn.env.message :
         turn.env.message[i] \in {AllCollected, NothingToSkip}

C4_SkippedAreUnfilled ==
  Returned =>
    \A i \in DOMAIN skippedPlaceholders :
      ~NonBlankEntry(responses, skippedPlaceholders[i])

\* C5: a turn not handled by the correction handler leaves every entry of
\* responses that was non-blank before the turn as it was.
C5_NoOverwriteOutsideCorrection ==
  (Returned /\ turn.handler # "correction") =>
    \A k \in DOMAIN turn.before.responses :
      NonBlankEntry(turn.before.responses, k) =>
        (k \in DOMAIN responses /\ responses[k] = turn.before.responses[k])

\* An answer turn whose extraction named a filled key with another value.
C5_Witness ==
  /\ turn.handler = "answer"
  /\ \E i \in DOMAIN turn.env.extractedValues :
       /\ NonBlankEntry(turn.before.responses, turn.env.extractedValues[i][1])
       /\ turn.env.extractedValues[i][2] #
            turn.before.responses[turn.env.extractedValues[i][1]]

\* C6: a correction turn whose extraction yields a non-blank value v for a
\* placeholder key k that already has a non-blank response ends with
\* responses[k] = v.
C6_CorrectionOverwrites ==
  turn.handler = "correction" =>
    \A i \in DOMAIN turn.env.extractedValues :
      LET k == turn.env.extractedValues[i][1]
          v == turn.env.extractedValues[i][2]
      IN  ( /\ k \in PlaceholderKeys
            /\ NonBlankEntry(turn.before.responses, k)
            /\ \E j \in DOMAIN v : v[j] \notin Whitespace )
          => responses[k] = v

\* C7: when an answer turn whose extraction named a placeholder key is
\* processed again with the same answer of the extraction model, responses
\* after the second turn equals responses after the first.
C7_RepeatedAnswerIdempotent ==
  ( /\ turn.repeat
    /\ \E i \in DOMAIN turn.first : turn.first[i][1] \in PlaceholderKeys )
  => responses = turn.before.responses

\* C8: after a skip turn taken while currentPlaceholderKey = k, k is in
\* skipped and the new currentPlaceholderKey differs from k whenever some
\* unfilled placeholder other than k exists.
C8_SkipMovesOn ==
  ( /\ Returned
    /\ turn.handler = "skip"
    /\ Truthy(turn.before.currentPlaceholderKey) )
  => /\ InSeq(skippedPlaceholders, turn.before.currentPlaceholderKey)
     /\ (\E j \in PlaceholderKeys :
           /\ j # turn.before.currentPlaceholderKey
           /\ ~NonBlankEntry(responses, j))
          => currentPlaceholderKey # turn.before.currentPlaceholderKey

\* C9: whenever a handler advances to a next question, the placeholder asked
\* about, and recorded as current, is the first of: unfilled not skipped
\* placeholders in definition order, then unfilled skipped ones in definition
\* order.
C9_SelectionPolicy ==
  LET \* the placeholders the selection policy ranks before placeholder i:
      \* the unfilled ones that are not skipped while i is, or that share
      \* its skip status and come earlier in definition order
      RankedBefore(i) ==
        {j \in DOMAIN placeholders :
           /\ ~NonBlankEntry(responses, placeholders[j].key)
           /\ \/ /\ ~InSeq(skippedPlaceholders, placeholders[j].key)
                 /\ InSeq(skippedPlaceholders, placeholders[i].key)
              \/ /\ InSeq(skippedPlaceholders, placeholders[j].key) <=>
                      InSeq(skippedPlaceholders, placeholders[i].key)
                 /\ j < i}
      \* k is the key the selection policy puts first: unfilled, and no
      \* unfilled placeholder is ranked before it
      SelectedByPolicy(k) ==
        \E i \in DOMAIN placeholders :
          /\ placeholders[i].key = k
          /\ ~NonBlankEntry(responses, k)
          /\ RankedBefore(i) = {}
  IN  turn.generated =>
        (SelectedByPolicy(turn.subject) /\ SelectedByPolicy(currentPlaceholderKey))

\* C10: after every turn that generates a new question, currentPlaceholderKey
\* is the key of the placeholder the question agent asked about and
\* lastQuestion is the text of that question.
C10_CurrentIsQuestionSubject ==
  turn.generated =>
    /\ currentPlaceholderKey = turn.subject
    /\ turn.subject # Undefined => lastQuestion = QuestionText(turn.subject)

\* C11: a turn that starts with every placeholder filled, whatever its
\* queryType, does not call the model of the question agent (no question is
\* generated, and no question call can fail), returns no generated or re-asked
\* question and leaves lastQuestion alone; getNextQuestion gives the fixed
\* completion sentence, without a model call, when nothing is unfilled.
C11_NoQuestionAfterCompletion ==
  (Ended /\ AllFilled(turn.before.responses)) =>
    /\ ~turn.generated
    /\ turn.aborted # "question"
    /\ lastQuestion = turn.before.lastQuestion
    /\ \A i \in DOMAIN turn.env.message :
         turn.env.message[i] \notin {QuestionText(k) : k \in PlaceholderKeys} \cup {turn.before.lastQuestion}
    /\ getNextQuestion(responses) = AllFilledSentence
    /\ ~QuestionFails(responses, "question")

\* A question turn after completion, with a question asked earlier that an
\* incomplete session would have re-asked.
C11_Witness ==
  /\ Returned
  /\ turn.handler = "question"
  /\ AllFilled(turn.before.responses)
  /\ Truthy(turn.before.lastQuestion)

\* C12: a turn that starts with every placeholder filled, whatever its
\* queryType, leaves responses and skippedPlaceholders as they were (no
\* handler assigns the placeholders list).
C12_ImmutableOnceComplete ==
  (Returned /\ AllFilled(turn.before.responses)) =>
    /\ responses = turn.before.responses
    /\ skippedPlaceholders = turn.before.skipped

\* C13: in a turn whose extraction model call raises, extract returns the
\* value understood = false, needsClarification = true, extractedValues = {}
\* and leaves responses as it was; the turn does not end with the extractor's
\* error.
C13_ExtractorFailureIsAValue ==
  (Ended /\ turn.out.threw) =>
    LET Returns(ex) ==
          /\ ~ex.threw
          /\ ~ex.result.understood
          /\ ex.result.needsClarification
          /\ ex.result.extractedValues = <<>>
          /\ ex.responses = turn.before.responses
    IN  /\ Returns(extract(turn.before.responses, turn.out,
                           turn.before.currentPlaceholderKey))
        /\ responses = turn.before.responses
        /\ turn.aborted # "extract"

\* C14: in a turn whose classifier model call raises, classify returns a
\* classification with queryType "answer" and processMessage dispatches the
\* turn to the answer handler.
C14_ClassifierFailureMeansAnswer ==
  (Ended /\ turn.classifierRaised) =>
    /\ ~classify(ClassifierFails).threw
    /\ classify(ClassifierFails).queryType = "answer"
    /\ turn.handler = "answer"

\* C15: every turn, whichever of the calls to the classifier, the extractor,
\* the validator, the question agent and the explainer fail in it, ends with
\* an envelope that has a message; no call raises out of processMessage.
C15_AlwaysReturnsAnEnvelope ==
  Ended =>
    /\ turn.aborted = "none"
    /\ turn.env # NoEnvelope
    /\ turn.env.message # <<>>

\* The validateValue call under study has returned for a key the session
\* has a placeholder for.
Validated == validation.returned /\ HasKeyIn(ValidationPlaceholders, validation.key)

\* The result of stage 1 for the call under study.
Stage1 ==
  validateType(FindIn(ValidationPlaceholders, validation.key).type,
               validation.value)

\* C16: when the type check of stage 1 finds an error, the result of
\* validateValue has isValid = false and exactly the errors of stage 1,
\* whatever the plausibility model would answer and whether or not its call
\* would fail; "not-an-email" for an email placeholder gives the one error
\* "Invalid email format".
C16_Stage1ErrorWins ==
  (Validated /\ ~Stage1.isValid) =>
    /\ ~validation.result.isValid
    /\ validation.result.errors = Stage1.errors
    /\ (validation.key = email_key /\ validation.value = NotAnEmail)
         => validation.result.errors = <<InvalidEmail>>

\* "not-an-email" for the email placeholder, with a plausibility model that
\* would have accepted it with a warning.
C16_Witness ==
  /\ validation.returned
  /\ validation.key = email_key
  /\ validation.value = NotAnEmail
  /\ ~validation.stage2.threw
  /\ validation.stage2.isValid
  /\ validation.stage2.warnings # <<>>
  /\ validation.result.errors = <<InvalidEmail>>

\* C17: when the plausibility call of validateValue fails, validateValue
\* returns the result of stage 1 as it is: same isValid, errors and warnings.
C17_Stage2FailureKeepsStage1 ==
  (Validated /\ validation.stage2.threw) => validation.result = Stage1

\* A short address, valid in stage 1 with a warning, whose plausibility call
\* fails.
C17_Witness ==
  /\ validation.returned
  /\ validation.key = address_key
  /\ validation.value = ShortStreet
  /\ validation.stage2.threw
  /\ validation.result.isValid
  /\ validation.result.warnings = <<ShortAddress>>

\* C18: for every value and every answer of the plausibility model, a result
\* with isValid = true comes from a stage 1 without errors and has an empty
\* errors list.
C18_ValidMeansNoErrors ==
  (Validated /\ validation.result.isValid) =>
    /\ Stage1.errors = <<>>
    /\ validation.result.errors = <<>>

\* C19: every warning of stage 1 is in the result of validateValue, when the
\* plausibility call succeeds as well as when it fails.
C19_Stage1WarningsKept ==
  Validated =>
    \A i \in DOMAIN Stage1.warnings :
      \E j \in DOMAIN validation.result.warnings :
        validation.result.warnings[j] = Stage1.warnings[i]

\* C20: when a turn returns isComplete = true, every placeholder value the
\* turn stored in responses has a validation result of the turn with
\* isValid = true.
C20_CompleteMeansValidated ==
  (Returned /\ turn.env.isComplete) =>
    LET Passed(results) ==
          \A k \in PlaceholderKeys :
            (k \notin DOMAIN turn.before.responses
               \/ turn.before.responses[k] # responses[k])
            => \E i \in DOMAIN results :
                 /\ results[i].key = k
                 /\ results[i].result.isValid
    IN  Passed(validationResults(turn.env.extractedValues, turn.stage2s))

C22_FailedTurnKeepsState ==
  (Ended /\ turn.aborted # "none") =>
    /\ skippedPlaceholders = turn.before.skipped
    /\ currentPlaceholderKey = turn.before.currentPlaceholderKey
    /\ lastQuestion = turn.before.lastQuestion

\* C23: turns of one session id are serialized: no two requests are between
\* getSession and updateSession at once, and the responses a turn finds when
\* its extraction returns are the responses it got from the store.
C23_TurnsAreSerialized ==
  /\ \A r1 \in Requests : \A r2 \in Requests :
       (requests[r1].pc = "extracting" /\ requests[r2].pc = "extracting")
         => r1 = r2
  /\ \A r \in Requests :
       requests[r].pc \in {"asking", "done"} /\ requests[r].status # "404"
         => requests[r].before = requests[r].seen

\* C24: in every turn, whatever its queryType, the calls are made in the
\* order classify, extract, validate (once per extracted value), generate
\* question, no call of a later stage before one of an earlier stage, and the
\* extractor is called at most once.
C24_PipelineOrder ==
  Ended =>
    LET \* the place of a call in the pipeline; the explainer has none
        PipelineStage(call) ==
          CASE call = "classify" -> 1 [] call = "extract" -> 2
            [] call = "validate" -> 3 [] call = "question" -> 4 [] OTHER -> 0
        Ordered(calls) ==
          /\ \A i \in DOMAIN calls : \A j \in DOMAIN calls :
               (i < j /\ PipelineStage(calls[i]) > 0
                      /\ PipelineStage(calls[j]) > 0)
                 => PipelineStage(calls[i]) <= PipelineStage(calls[j])
          /\ Cardinality({i \in DOMAIN calls : calls[i] = "extract"}) <= 1
    IN  Ordered(TurnCalls)

\* C25: a question turn on an incomplete session that has a lastQuestion
\* returns, when the text has one of the cue words what, that, this, mean,
\* the explanation followed by the same lastQuestion and leaves
\* currentPlaceholderKey and lastQuestion alone; otherwise it advances:
\* currentPlaceholderKey is the next unfilled placeholder and lastQuestion a
\* newly generated question, which follows the explanation.
C25_QuestionReasksOnCue ==
  ( /\ Returned
    /\ turn.handler = "question"
    /\ ~AllFilled(turn.before.responses)
    /\ Truthy(turn.before.lastQuestion) )
  => IF \E w \in cueWords : includes(toLowerCase(turn.userMessage), w)
     THEN /\ turn.env.message = <<Explanation, turn.before.lastQuestion>>
          /\ currentPlaceholderKey = turn.before.currentPlaceholderKey
          /\ lastQuestion = turn.before.lastQuestion
          /\ ~turn.generated
     ELSE /\ turn.generated
          /\ currentPlaceholderKey =
               FirstKey(getUnfilledPlaceholders(responses, skippedPlaceholders))
          /\ currentPlaceholderKey \in PlaceholderKeys
          /\ ~NonBlankEntry(responses, currentPlaceholderKey)
          /\ lastQuestion \in {QuestionText(k) : k \in PlaceholderKeys}
          /\ turn.env.message = <<Explanation, lastQuestion>>

\* "what" asked while the question about signing_date is pending.
C25_Witness ==
  /\ Returned
  /\ turn.handler = "question"
  /\ turn.userMessage = WhatText
  /\ ~AllFilled(turn.before.responses)
  /\ turn.before.lastQuestion = QuestionText(signing_date)
  /\ turn.env.message = <<Explanation, QuestionText(signing_date)>>

----------------------------------------------------------------------------
(* ExplanationAgent.explain: the post-processing of the model output *)

\* `cleaned` of ExplanationAgent.stripTrailingQuestions: the trimmed text cut
\* at the match of the first pattern of questionPatterns that matches, closed
\* with "." when the cut leaves a text that does not end with ".", "!" or
\* "?".  A pattern /<first>.*?<second>.*?$/i is the pair of its literals in
\* lower case (an empty second literal for /<first>.*?$/i); "." does not
\* match a line terminator, so a match runs to the end of the text on one
\* line.
StrippedText(text) ==
  LET questionPatterns ==
        << <<<<"d","o"," ","y","o","u"," ","h","a","v","e"," ","a","n","y"," ","o","t","h","e","r"," ","q","u","e","s","t","i","o","n","s">>,
             <<>>>>,
           <<<<"w","o","u","l","d"," ","y","o","u"," ","l","i","k","e"," ","t","o"," ","d","i","s","c","u","s","s">>,
             <<>>>>,
           <<<<"a","r","e"," ","t","h","e","r","e"," ","a","n","y"," ","o","t","h","e","r">>,
             <<"q","u","e","s","t","i","o","n","s">>>>,
           <<<<"c","a","n"," ","i"," ","h","e","l","p"," ","w","i","t","h"," ","a","n","y","t","h","i","n","g"," ","e","l","s","e">>,
             <<>>>>,
           <<<<"w","o","u","l","d"," ","y","o","u"," ","l","i","k","e"," ","t","o"," ","c","o","n","t","i","n","u","e">>,
             <<>>>>,
           <<<<"a","n","y"," ","o","t","h","e","r">>,
             <<"q","u","e","s","t","i","o","n","s">>>>,
           <<<<"d","o"," ","y","o","u"," ","w","a","n","t"," ","t","o">>,
             <<"c","o","n","t","i","n","u","e">>>>,
           <<<<"s","h","o","u","l","d"," ","w","e">>,
             <<"m","o","v","e"," ","o","n">>>> >>
      trimmed == trim(text)
      low == toLowerCase(trimmed)
      MatchesAt(pat, i) ==
        /\ SubSeq(low, i, i + Len(pat[1]) - 1) = pat[1]
        /\ includes(SubSeq(low, i + Len(pat[1]), Len(low)), pat[2])
        /\ \A j \in i..Len(trimmed) : trimmed[j] # "\n"
      Found(pat) == {i \in 1..(Len(low) - Len(pat[1]) + 1) : MatchesAt(pat, i)}
      \* match.index + 1 of the leftmost match
      MatchIndex(pat) == CHOOSE i \in Found(pat) : \A j \in Found(pat) : i <= j
      hits == {n \in DOMAIN questionPatterns : Found(questionPatterns[n]) # {}}
      Closed(cleaned) ==
        IF cleaned # Empty /\ cleaned[Len(cleaned)] \notin {".", "!", "?"}
        THEN cleaned \o <<".">> ELSE cleaned
      CutAt(index) == Closed(trim(SubSeq(trimmed, 1, index - 1)))
  IN  IF hits = {} THEN trimmed
      ELSE CutAt(MatchIndex(
                   questionPatterns[CHOOSE n \in hits : \A k \in hits : n <= k]))

\* ExplanationAgent.stripTrailingQuestions: `cleaned || text`
stripTrailingQuestions(text) ==
  IF StrippedText(text) # Empty THEN StrippedText(text) ELSE text

\* The text explain returns for the text content `raw` of the model output
\* (empty when the output has no text): the content, or else "I'm not sure
\* how to answer that. Could you rephrase your question?", stripped.
explain(raw) ==
  stripTrailingQuestions(
    IF raw # Empty THEN raw
    ELSE <<"I","'","m"," ","n","o","t"," ","s","u","r","e"," ","h","o","w"," ","t","o"," ","a","n","s","w","e","r"," ","t","h","a","t","."," ","C","o","u","l","d"," ","y","o","u"," ","r","e","p","h","r","a","s","e"," ","y","o","u","r"," ","q","u","e","s","t","i","o","n","?">>)

\* Model outputs: a beginning followed by an end.
RawExplanations ==
  LET beginnings == {
        \* ""
        <<>>,
        \* "Ok. "
        <<"O","k","."," ">>,
        \* "Ok "
        <<"O","k"," ">>,
        \* "Ok? "
        <<"O","k","?"," ">>,
        \* "It is the date.\n"
        <<"I","t"," ","i","s"," ","t","h","e"," ","d","a","t","e",".","\n">>,
        \* "  "
        <<" "," ">> }
      ends == {
        \* ""
        <<>>,
        \* "Do you have any other questions?"
        <<"D","o"," ","y","o","u"," ","h","a","v","e"," ","a","n","y"," ","o","t","h","e","r"," ","q","u","e","s","t","i","o","n","s","?">>,
        \* "Would you like to discuss it?"
        <<"W","o","u","l","d"," ","y","o","u"," ","l","i","k","e"," ","t","o"," ","d","i","s","c","u","s","s"," ","i","t","?">>,
        \* "Are there any other open questions?"
        <<"A","r","e"," ","t","h","e","r","e"," ","a","n","y"," ","o","t","h","e","r"," ","o","p","e","n"," ","q","u","e","s","t","i","o","n","s","?">>,
        \* "Can I help with anything else?"
        <<"C","a","n"," ","I"," ","h","e","l","p"," ","w","i","t","h"," ","a","n","y","t","h","i","n","g"," ","e","l","s","e","?">>,
        \* "Would you like to continue?"
        <<"W","o","u","l","d"," ","y","o","u"," ","l","i","k","e"," ","t","o"," ","c","o","n","t","i","n","u","e","?">>,
        \* "Any other questions?"
        <<"A","n","y"," ","o","t","h","e","r"," ","q","u","e","s","t","i","o","n","s","?">>,
        \* "DO YOU WANT TO CONTINUE?"
        <<"D","O"," ","Y","O","U"," ","W","A","N","T"," ","T","O"," ","C","O","N","T","I","N","U","E","?">>,
        \* "Should we move on?"
        <<"S","h","o","u","l","d"," ","w","e"," ","m","o","v","e"," ","o","n","?">>,
        \* "Why?"
        <<"W","h","y","?">>,
        \* "Done."
        <<"D","o","n","e",".">>,
        \* "Would you like to continue?\nYes."
        <<"W","o","u","l","d"," ","y","o","u"," ","l","i","k","e"," ","t","o"," ","c","o","n","t","i","n","u","e","?","\n","Y","e","s",".">>,
        \* "It means the date"
        <<"I","t"," ","m","e","a","n","s"," ","t","h","e"," ","d","a","t","e">> }
  IN  {p \o e : p \in beginnings, e \in ends}

InitExplain ==
  /\ responses = <<>>
  /\ skippedPlaceholders = <<>>
  /\ currentPlaceholderKey = Undefined
  /\ lastQuestion = Undefined
  /\ turn = NoTurn
  /\ validation = NoValidation
  /\ requests = NoRequests
  /\ explained \in [raw : RawExplanations, returned : {FALSE}, text : {Empty}]
  /\ mapping = NoMapping
  /\ detection = <<>>
  /\ download = <<>>
  /\ client = <<>>

\* The explain call returns.
Explain ==
  /\ ~explained.returned
  /\ explained' = [explained EXCEPT !.returned = TRUE,
                                    !.text = explain(explained.raw)]
  /\ UNCHANGED <<responses, skippedPlaceholders, currentPlaceholderKey,
                 lastQuestion, turn, validation, requests, mapping,
                 detection, download, client>>

SpecExplain == InitExplain /\ [][Explain]_vars

\* C26: the text explain returns never ends with "?", and when stripping
\* leaves nothing the text returned is "I've noted that.".
C26_NoTrailingQuestion ==
  explained.returned =>
    /\ explained.text # Empty
    /\ explained.text[Len(explained.text)] # "?"
    /\ (StrippedText(explained.raw) = Empty => explained.text = NotedThat)

----------------------------------------------------------------------------
(* ExtractionAgent.mapToPlaceholderKeys against the resolution order *)

\* The placeholders of the session of the mapToPlaceholderKeys call:
\* company_name / "Company Name", founder_name / "Founder Name",
\* full_legal_name / "Full Legal Name".
MappingPlaceholders ==
  << [key |-> company_name, label |-> CompanyNameLabel, type |-> "text"],
     [key |-> founder_name,
      label |-> <<"F","o","u","n","d","e","r"," ","N","a","m","e">>,
      type |-> "text"],
     [key |-> <<"f","u","l","l","_","l","e","g","a","l","_","n","a","m","e">>,
      label |-> <<"F","u","l","l"," ","L","e","g","a","l"," ","N","a","m","e">>,
      type |-> "text"] >>

MappingKeys == {MappingPlaceholders[i].key : i \in DOMAIN MappingPlaceholders}

\* Longest record a mapToPlaceholderKeys call is given.
MaxMapped == 3

\* extractedValuesRecord: distinct keys in insertion order.  The keys are
\* keys and labels of placeholders, parts of them, a synonym, and a key of no
\* placeholder; the i-th entry has the i-th of four values.
MappingRecords ==
  LET rawKeys ==
        {company_name, company, CompanyNameLabel, name, founder_name,
         \* "legal name"
         <<"l","e","g","a","l"," ","n","a","m","e">>,
         \* "founder name"
         <<"f","o","u","n","d","e","r"," ","n","a","m","e">>,
         \* "Full Legal Name"
         <<"F","u","l","l"," ","L","e","g","a","l"," ","N","a","m","e">>,
         \* "Phone Number"
         <<"P","h","o","n","e"," ","N","u","m","b","e","r">>}
      values == <<Acme, <<"G","a","m","m","a">>, Beta, IsoDate>>
  IN  UNION {
        {[i \in 1..n |-> <<f[i], values[i]>>] :
           f \in {g \in [1..n -> rawKeys] :
                    \A i \in 1..n : \A j \in 1..n : i # j => g[i] # g[j]}} :
        n \in 0..MaxMapped}

\* The key the resolution order stores one pair under: the key is
\* normalized (lower case, trimmed, whitespace to underscores, then the
\* synonym table); (a) when it equals, is a substring of, or contains the
\* normalized key or label of the current placeholder, the current
\* placeholder; else (b) the first placeholder whose normalized key or
\* label equals it; else (c) the normalized key itself.
\* ReferenceMap applies it to the pairs in order.
RECURSIVE ReferenceMap(_, _, _, _)
ReferenceMap(ps, mapped, entries, current) ==
  LET ReferenceKey(key) ==
        LET Normal(x) == ReplaceWs(trim(toLowerCase(x)))
            n == IF Normal(key) \in synonymKeys THEN synonymMap(Normal(key))
                 ELSE Normal(key)
            BindsToCurrent(p) ==
              \/ n = Normal(p.key) \/ n = Normal(p.label)
              \/ includes(Normal(p.key), n) \/ includes(Normal(p.label), n)
              \/ includes(n, Normal(p.key)) \/ includes(n, Normal(p.label))
            exact == {i \in DOMAIN ps :
                        n = Normal(ps[i].key) \/ n = Normal(ps[i].label)}
        IN  IF /\ Truthy(current) /\ HasKeyIn(ps, current)
               /\ BindsToCurrent(FindIn(ps, current))
            THEN current
            ELSE IF exact # {}
            THEN ps[CHOOSE i \in exact : \A j \in exact : i <= j].key
            ELSE n
  IN  IF entries = <<>> THEN mapped
      ELSE ReferenceMap(ps,
             Put(mapped, ReferenceKey(Head(entries)[1]), Head(entries)[2]),
             Tail(entries), current)

InitMapping ==
  /\ responses = <<>>
  /\ skippedPlaceholders = <<>>
  /\ currentPlaceholderKey = Undefined
  /\ lastQuestion = Undefined
  /\ turn = NoTurn
  /\ validation = NoValidation
  /\ requests = NoRequests
  /\ explained = NoExplained
  /\ mapping \in [extracted : MappingRecords,
                   preferred : MappingKeys \cup {Undefined},
                   returned : {FALSE}, result : {<<>>}]
  /\ detection = <<>>
  /\ download = <<>>
  /\ client = <<>>

\* The mapToPlaceholderKeys call returns.
MapKeys ==
  /\ ~mapping.returned
  /\ mapping' = [mapping EXCEPT
                   !.returned = TRUE,
                   !.result = mapToPlaceholderKeysIn(MappingPlaceholders,
                                mapping.extracted, mapping.preferred)]
  /\ UNCHANGED <<responses, skippedPlaceholders, currentPlaceholderKey,
                 lastQuestion, turn, validation, requests, explained,
                 detection, download, client>>

SpecMapping == InitMapping /\ [][MapKeys]_vars

\* C27: the record mapToPlaceholderKeys returns binds to every placeholder
\* the value the resolution order (a), (b), (c) binds to it.
C27_ResolutionOrder ==
  mapping.returned =>
    LET reference == ReferenceMap(MappingPlaceholders, <<>>,
                                  mapping.extracted, mapping.preferred)
    IN  \A k \in MappingKeys :
          /\ k \in Keys(mapping.result) <=> k \in Keys(reference)
          /\ k \in Keys(mapping.result) =>
                Get(mapping.result, k) = Get(reference, k)

\* C28: a pair that matches no placeholder is stored under its normalized
\* key (lower case, trimmed, whitespace to underscores), not under the key
\* of a placeholder, and the completion check gives the same answer on the
\* responses written from the record with and without such pairs.
C28_OrphanKeptNormalized ==
  mapping.returned =>
    LET \* the pair takes the last branch of mapToPlaceholderKeys: it is not
        \* bound to the preferred placeholder and the find over the
        \* placeholders fails
        IsOrphan(e) ==
          /\ ~BoundToPreferred(MappingPlaceholders, e[1], mapping.preferred)
          /\ FirstMatchIn(MappingPlaceholders, MappedKey(e[1]), 1) = 0
        \* BaseAgent.isComplete of the session of the call
        isCompleteIn(resp) ==
          \A i \in DOMAIN MappingPlaceholders :
            Filled(resp, MappingPlaceholders[i].key)
        bound == mapToPlaceholderKeysIn(MappingPlaceholders,
                   SelectSeq(mapping.extracted, LAMBDA e : ~IsOrphan(e)),
                   mapping.preferred)
    IN  /\ \A i \in DOMAIN mapping.extracted :
             IsOrphan(mapping.extracted[i]) =>
               /\ ReplaceWs(trim(toLowerCase(mapping.extracted[i][1])))
                    \in Keys(mapping.result)
               /\ TargetKeyIn(MappingPlaceholders, mapping.extracted[i][1],
                              mapping.preferred) \notin MappingKeys
        /\ isCompleteIn(WriteNew(<<>>, mapping.result))
             = isCompleteIn(WriteNew(<<>>, bound))

\* C29: processUserResponse writes only new values: an entry of responses
\* that is non-blank when the model has answered has the same value when the
\* call returns.
C29_OnlyNewValues ==
  \A r \in Requests :
    (requests[r].pc \in {"asking", "done"} /\ requests[r].status # "404") =>
      \A k \in DOMAIN requests[r].before :
        NonBlank(requests[r].before[k]) =>
          /\ k \in DOMAIN requests[r].after
          /\ requests[r].after[k] = requests[r].before[k]

\* C30: a turn of the question handler or of the general handler, ended by
\* a response or by a raised call, leaves responses and skippedPlaceholders
\* as they were before the turn.
C30_ExplainingKeepsFillAndSkip ==
  (Ended /\ turn.handler \in {"question", "general"}) =>
    /\ responses = turn.before.responses
    /\ skippedPlaceholders = turn.before.skipped

\* A question turn that generated a new question in a session with a filled
\* and a skipped placeholder.
C30_Witness ==
  /\ Returned /\ turn.handler = "question" /\ turn.generated
  /\ Filled(turn.before.responses, company_name)
  /\ turn.before.skipped # <<>>
  /\ currentPlaceholderKey # turn.before.currentPlaceholderKey
  /\ responses = turn.before.responses
  /\ skippedPlaceholders = turn.before.skipped

----------------------------------------------------------------------------
(* DetectionAgent (lib/agents/DetectionAgent.ts): detect cuts a text that is *)
(* longer than one prompt into chunks, asks the model for the placeholders of *)
(* each chunk and removes the duplicates.  A text is its length: position p   *)
(* is the character at index p.                                               *)

\* Mutant of detectInChunks: the first and the last chunk only.
detectInChunksEnds(length, maxChunkSize, overlapSize) ==
  <<[start |-> 0, end |-> maxChunkSize],
    [start |-> IF length - maxChunkSize > 0 THEN length - maxChunkSize ELSE 0,
     end |-> length]>>

\* detectInChunks: the chunks it pushes, `end` as the code records it.  The
\* text of a chunk is fullText.substring(start, end).
detectInChunks(length, maxChunkSize, overlapSize) ==
  LET RECURSIVE Middle(_, _)
      Middle(chunks, currentPos) ==
        IF currentPos < length - maxChunkSize
        THEN Middle(Append(chunks, [start |-> currentPos,
                                    end |-> currentPos + maxChunkSize]),
                    currentPos + (maxChunkSize - overlapSize))
        ELSE chunks
      lastChunkStart ==
        IF length - maxChunkSize > 0 THEN length - maxChunkSize ELSE 0
  IN  Append(Middle(<<[start |-> 0, end |-> maxChunkSize]>>,
                    maxChunkSize - overlapSize),
             [start |-> lastChunkStart, end |-> length])

\* Mutant of deduplicatePlaceholders: the first placeholder of a key stays.
deduplicatePlaceholdersFirst(found) ==
  SelectSeq(found, LAMBDA p : p = FindIn(found, p.key))

\* deduplicatePlaceholders: `seen` is a Map, so a key keeps the position of
\* its first set.
deduplicatePlaceholders(found) ==
  LET Set(seen, placeholder) ==
        IF HasKeyIn(seen, placeholder.key)
        THEN [i \in DOMAIN seen |->
                IF seen[i].key = placeholder.key THEN placeholder ELSE seen[i]]
        ELSE Append(seen, placeholder)
      Merge(seen, placeholder) ==
        IF ~HasKeyIn(seen, placeholder.key) THEN Set(seen, placeholder)
        ELSE LET existing == FindIn(seen, placeholder.key)
             IN  IF /\ ~Truthy(existing.originalPattern)
                    /\ Truthy(placeholder.originalPattern)
                 THEN Set(seen, placeholder)
                 ELSE IF /\ ~Truthy(existing.description)
                         /\ Truthy(placeholder.description)
                 THEN Set(seen, [existing EXCEPT
                                   !.description = placeholder.description])
                 ELSE seen
      RECURSIVE Loop(_, _)
      Loop(seen, rest) ==
        IF rest = <<>> THEN seen
        ELSE Loop(Merge(seen, Head(rest)), Tail(rest))
  IN  Loop(<<>>, found)

\* The longest text, and the most placeholders the model finds in one text.
MaxLength == 10
MaxDetected == 3

\* A detect call on a text of 1..MaxLength characters.  The prompt length
\* and the overlap (30000 and 2000 in the code) are scaled to the texts:
\* every pair here has the overlap below the prompt length.
InitDetection ==
  /\ responses = <<>>
  /\ skippedPlaceholders = <<>>
  /\ currentPlaceholderKey = Undefined
  /\ lastQuestion = Undefined
  /\ turn = NoTurn
  /\ validation = NoValidation
  /\ requests = NoRequests
  /\ explained = NoExplained
  /\ mapping = NoMapping
  /\ \E length \in 1..MaxLength :
     \E sizes \in {<<3, 0>>, <<3, 1>>, <<4, 2>>, <<4, 3>>, <<5, 2>>} :
       detection = [pc |-> "start", length |-> length,
                    maxPromptLength |-> sizes[1], overlapSize |-> sizes[2],
                    chunks |-> <<>>, analysed |-> 0,
                    allPlaceholders |-> <<>>, result |-> <<>>]
  /\ download = <<>>
  /\ client = <<>>

\* detect up to its first model call: one chunk 'full' for a text that fits
\* the prompt, else the chunks of detectInChunks.
detect ==
  /\ detection.pc = "start"
  /\ detection' =
       [detection EXCEPT
          !.pc = "analysing",
          !.chunks =
            IF detection.length <= detection.maxPromptLength
            THEN <<[start |-> 0, end |-> detection.length]>>
            ELSE detectInChunks(detection.length, detection.maxPromptLength,
                                detection.overlapSize)]
  /\ UNCHANGED <<responses, skippedPlaceholders, currentPlaceholderKey,
                 lastQuestion, turn, validation, requests, explained, mapping,
                 download, client>>

\* The model answers for the next chunk (no placeholder when its call or the
\* parse of its answer fails); after the last chunk detect removes the
\* duplicates and returns.
detectInChunk ==
  /\ detection.pc = "analysing"
  /\ LET pattern == <<"[", "_", "]">>
         described == <<"d">>
         Detected ==
           { [key |-> company_name, originalPattern |-> Undefined,
              description |-> Undefined],
             [key |-> company_name, originalPattern |-> pattern,
              description |-> Undefined],
             [key |-> company_name, originalPattern |-> Empty,
              description |-> described],
             [key |-> signing_date, originalPattern |-> pattern,
              description |-> described] }
         room == MaxDetected - Len(detection.allPlaceholders)
         Analysed(all, last) ==
           [detection EXCEPT
              !.analysed = @ + 1,
              !.allPlaceholders = all,
              !.pc = IF last THEN "returned" ELSE "analysing",
              !.result = IF last THEN deduplicatePlaceholders(all) ELSE <<>>]
     IN  \E n \in 0..room :
         \E chunkPlaceholders \in [1..n -> Detected] :
           detection' =
             Analysed(detection.allPlaceholders \o chunkPlaceholders,
                      detection.analysed + 1 = Len(detection.chunks))
  /\ UNCHANGED <<responses, skippedPlaceholders, currentPlaceholderKey,
                 lastQuestion, turn, validation, requests, explained, mapping,
                 download, client>>

NextDetection == detect \/ detectInChunk

SpecDetection == InitDetection /\ [][NextDetection]_vars

\* C31: for a text longer than one chunk, the chunks of detectInChunks
\* cover every position of the text, and each chunk shares at least
\* overlapSize characters with the next one.
C31_ChunksCoverWithOverlap ==
  (detection.pc # "start" /\ detection.length > detection.maxPromptLength) =>
    LET chunks == detection.chunks
        Text(c) == {pos \in 0..(detection.length - 1) :
                      c.start <= pos /\ pos < c.end}
    IN  /\ \A pos \in 0..(detection.length - 1) :
             \E i \in DOMAIN chunks : pos \in Text(chunks[i])
        /\ \A i \in 1..(Len(chunks) - 1) :
             Cardinality(Text(chunks[i]) \cap Text(chunks[i + 1]))
               >= detection.overlapSize

\* A text cut into a first, a middle and a last chunk with a non-zero overlap.
C31_Witness ==
  /\ detection.pc # "start"
  /\ detection.length > detection.maxPromptLength
  /\ detection.overlapSize > 0
  /\ Len(detection.chunks) >= 3

\* C32: the list detect returns has pairwise distinct keys, holds the keys
\* found in the order of their first occurrence, and the entry of a key has
\* an originalPattern whenever one of the placeholders found under that key
\* has one.
C32_DetectDeduplicates ==
  detection.pc = "returned" =>
    LET all == detection.allPlaceholders
        result == detection.result
        FirstAt(k) == CHOOSE i \in DOMAIN all :
                        /\ all[i].key = k
                        /\ \A j \in 1..(i - 1) : all[j].key # k
    IN  /\ \A i, j \in DOMAIN result :
             result[i].key = result[j].key => i = j
        /\ {result[i].key : i \in DOMAIN result}
             = {all[i].key : i \in DOMAIN all}
        /\ \A i, j \in DOMAIN result :
             i < j => FirstAt(result[i].key) < FirstAt(result[j].key)
        /\ \A i \in DOMAIN result :
             (\E j \in DOMAIN all : /\ all[j].key = result[i].key
                                    /\ Truthy(all[j].originalPattern))
               => Truthy(result[i].originalPattern)

\* Three placeholders found in more than one chunk: the first has no
\* pattern, the second has another key, the third repeats the key of the
\* first with a pattern.
C32_Witness ==
  /\ detection.pc = "returned"
  /\ Len(detection.chunks) > 1
  /\ Len(detection.allPlaceholders) = 3
  /\ detection.allPlaceholders[1].key = detection.allPlaceholders[3].key
  /\ detection.allPlaceholders[2].key # detection.allPlaceholders[1].key
  /\ ~Truthy(detection.allPlaceholders[1].originalPattern)
  /\ Truthy(detection.allPlaceholders[3].originalPattern)
  /\ Len(detection.result) = 2

----------------------------------------------------------------------------
(* Properties of the dialog: stability, frames, envelope and current key.    *)

\* C33: a turn of any queryType, correction included, that starts with every
\* placeholder key having a non-blank entry ends, by an envelope or by a
\* raised call, with every placeholder key having a non-blank entry (only
\* turns write the session).
C33_CompletionIsStable ==
  (Ended /\ AllFilled(turn.before.responses)) => AllFilled(responses)

\* A correction turn on a complete session whose extraction named a filled
\* key with another value.
C33_Witness ==
  /\ Returned /\ turn.handler = "correction"
  /\ AllFilled(turn.before.responses)
  /\ \E i \in DOMAIN turn.env.extractedValues :
       /\ turn.env.extractedValues[i][1] \in PlaceholderKeys
       /\ turn.env.extractedValues[i][2] #
            turn.before.responses[turn.env.extractedValues[i][1]]
  /\ AllFilled(responses)

\* C34: a clarification turn that is not re-dispatched to the answer handler
\* leaves responses and skippedPlaceholders as they were before the turn and
\* returns an envelope without extractedValues.
C34_ClarificationFrame ==
  (Returned /\ turn.handler = "clarification" /\ ~turn.redispatched) =>
    /\ responses = turn.before.responses
    /\ skippedPlaceholders = turn.before.skipped
    /\ ~turn.env.hasExtractedValues

\* C38: after an answer or a correction turn, responses holds under every
\* key of the envelope's extractedValues the value the envelope gives for it.
C38_EnvelopeValuesAreStored ==
  (Returned /\ turn.handler \in {"answer", "correction"}) =>
    \A i \in DOMAIN turn.env.extractedValues :
      /\ turn.env.extractedValues[i][1] \in DOMAIN responses
      /\ responses[turn.env.extractedValues[i][1]]
           = turn.env.extractedValues[i][2]

\* C39: after a turn that leaves a placeholder unfilled and returns a
\* question, generated or re-asked, currentPlaceholderKey is the key of a
\* placeholder without a non-blank entry.
C39_CurrentIsUnfilled ==
  ( /\ Returned
    /\ ~AllFilled(responses)
    /\ \E i \in DOMAIN turn.env.message :
         turn.env.message[i] \in {QuestionText(k) : k \in PlaceholderKeys} )
  => /\ currentPlaceholderKey \in PlaceholderKeys
     /\ ~NonBlankEntry(responses, currentPlaceholderKey)

----------------------------------------------------------------------------
(* Answer turns of the Orchestrator that interleave on one session.  The     *)
(* store hands every caller the same session object (getSession) and takes   *)
(* no lock, so a turn suspended at a model call shares `responses` with the   *)
(* turn that runs meanwhile; the Orchestrator fields are shared likewise.     *)

\* Mutant of ResumesOn: the continuation works on the responses of the call.
ResumesOnSeen(seen, current) == seen

\* The responses the continuation of extract filters and writes: those of
\* the session object when the model call resolves, not those it was called
\* with.
ResumesOn(seen, current) == current

\* handleAnswer up to the model call of extract: the hint is fixed here.
ExtractCalled(r) ==
  /\ requests[r].pc = "idle"
  /\ requests' =
       [requests EXCEPT ![r] =
          [pc |-> "extracting", seen |-> responses, before |-> <<>>,
           after |-> <<>>, extractedValues |-> <<>>,
           hint |-> AnswerHint(responses, skippedPlaceholders,
                               currentPlaceholderKey)]]
  /\ UNCHANGED <<responses, skippedPlaceholders, currentPlaceholderKey,
                 lastQuestion, turn, validation, explained, mapping,
                 detection, download, client>>

\* The extraction model answers: mapToPlaceholderKeys, the filter on unfilled
\* keys and the writes run without a suspension, then handleAnswer removes
\* the extracted keys from skippedPlaceholders and awaits validateValue, or
\* with nothing extracted goes on to isComplete and getNextQuestion.  A raised
\* call ends the turn.
ExtractReturned(r) ==
  /\ requests[r].pc = "extracting"
  /\ \E out \in FirstAnswers \cup {ExtractionFails} :
       LET Resumed(ex) ==
             LET mappedValues == ex.result.extractedValues
                 Step(pc) ==
                   [requests[r] EXCEPT
                      !.pc = pc, !.before = responses,
                      !.after = ex.responses,
                      !.extractedValues = mappedValues]
             IN  /\ responses' = ex.responses
                 /\ skippedPlaceholders' =
                      RemoveExtracted(skippedPlaceholders, mappedValues)
                 /\ requests' =
                      [requests EXCEPT ![r] =
                         IF ex.threw THEN Step("returned")
                         ELSE IF mappedValues # <<>> THEN Step("validating")
                         ELSE IF isComplete(ex.responses) THEN Step("returned")
                         ELSE Step("asking")]
       IN  Resumed(extract(ResumesOn(requests[r].seen, responses), out,
                           requests[r].hint))
  /\ UNCHANGED <<currentPlaceholderKey, lastQuestion, turn, validation,
                 explained, mapping, detection, download, client>>

\* The validateValue calls have resolved: isComplete, and either the
\* completion envelope or the call of getNextQuestion.
ValuesValidated(r) ==
  /\ requests[r].pc = "validating"
  /\ requests' =
       [requests EXCEPT ![r].pc =
          IF isComplete(responses) THEN "returned" ELSE "asking"]
  /\ UNCHANGED <<responses, skippedPlaceholders, currentPlaceholderKey,
                 lastQuestion, turn, validation, explained, mapping,
                 detection, download, client>>

\* getNextQuestion has resolved: currentPlaceholderKey and lastQuestion are
\* assigned and the envelope is returned.
Questioned(r) ==
  /\ requests[r].pc = "asking"
  /\ currentPlaceholderKey' =
       FirstKey(getUnfilledPlaceholders(responses, skippedPlaceholders))
  /\ lastQuestion' = getNextQuestion(responses)
  /\ requests' = [requests EXCEPT ![r].pc = "returned"]
  /\ UNCHANGED <<responses, skippedPlaceholders, turn, validation, explained,
                 mapping, detection, download, client>>

\* The caller takes the envelope or the error.
Taken(r) ==
  /\ requests[r].pc = "returned"
  /\ requests' = [requests EXCEPT ![r] = IdleRequest]
  /\ UNCHANGED <<responses, skippedPlaceholders, currentPlaceholderKey,
                 lastQuestion, turn, validation, explained, mapping,
                 detection, download, client>>

NextInterleaved ==
  \E r \in Requests :
    \/ ExtractCalled(r)
    \/ ExtractReturned(r)
    \/ ValuesValidated(r)
    \/ Questioned(r)
    \/ Taken(r)

SpecInterleaved == Init /\ [][NextInterleaved]_vars

\* C35: with two answer turns interleaving at their model calls on one
\* session, no step changes or removes an entry of responses that is
\* non-blank: extract tests and writes on the responses it resumes on.
C35_NoOverwriteWhenInterleaved ==
  [][\A k \in DOMAIN responses :
       NonBlankEntry(responses, k)
         => (k \in DOMAIN responses' /\ responses'[k] = responses[k])]_vars

\* Both turns were suspended in extract; the second resumed on responses the
\* first had written meanwhile, with a value for a key the first had filled.
C35_Witness ==
  \E r \in Requests :
    /\ requests[r].pc \in {"validating", "asking", "returned"}
    /\ requests[r].seen # requests[r].before
    /\ \E i \in DOMAIN requests[r].extractedValues :
         LET k == requests[r].extractedValues[i][1]
         IN  /\ k \notin DOMAIN requests[r].seen
             /\ NonBlankEntry(requests[r].before, k)
             /\ requests[r].extractedValues[i][2] # requests[r].before[k]
             /\ responses[k] = requests[r].before[k]

----------------------------------------------------------------------------
(* The download route (app/api/download/[id]/route.ts), GET.                 *)

\* Mutant of allFilled: `some` instead of `every`.
allFilledSome(resp) ==
  \E i \in DOMAIN placeholders : Filled(resp, placeholders[i].key)

\* session.placeholders.every((p) => session.responses[p.key]?.trim())
allFilled(resp) ==
  \A i \in DOMAIN placeholders : Filled(resp, placeholders[i].key)

\* A GET for the id of the stored session, for an id the store does not
\* have, or without an id; the stored session holds, per placeholder key, no
\* entry, a blank one or a value, and possibly an entry under `name`.
InitDownload ==
  /\ \E present \in SUBSET {company_name, signing_date, name} :
       responses \in [present -> {Blank, Acme}]
  /\ skippedPlaceholders = <<>>
  /\ currentPlaceholderKey = Undefined
  /\ lastQuestion = Undefined
  /\ turn = NoTurn
  /\ validation = NoValidation
  /\ requests = NoRequests
  /\ explained = NoExplained
  /\ mapping = NoMapping
  /\ detection = <<>>
  /\ \E sessionId \in {StoredSession, "unknown", ""} :
       download = [pc |-> "received", sessionId |-> sessionId,
                   status |-> "none", generated |-> FALSE]
  /\ client = <<>>

\* GET: 400 without an id, 404 when the store has no such session, 400 when
\* a placeholder is unfilled, else generateFilledDocument and the file, or
\* 500 when the generation raises.
GET ==
  /\ download.pc = "received"
  /\ LET Replied(status, generated) ==
           download' = [download EXCEPT !.pc = "returned", !.status = status,
                                        !.generated = generated]
     IN  IF download.sessionId = "" THEN Replied("400", FALSE)
         ELSE IF download.sessionId # StoredSession
         THEN Replied("404", FALSE)
         ELSE IF ~allFilled(responses) THEN Replied("400", FALSE)
         ELSE \E raised \in BOOLEAN :
                Replied(IF raised THEN "500" ELSE "200", TRUE)
  /\ UNCHANGED <<responses, skippedPlaceholders, currentPlaceholderKey,
                 lastQuestion, turn, validation, requests, explained, mapping,
                 detection, client>>

SpecDownload == InitDownload /\ [][GET]_vars

\* C36: the download route calls generateFilledDocument only for a stored
\* session in which every placeholder key has a non-blank entry; an id the
\* store does not have gets 404 and a session with an unfilled placeholder
\* gets 400, both without a call of generateFilledDocument.
C36_DownloadOnlyWhenComplete ==
  download.pc = "returned" =>
    /\ download.generated =>
         (download.sessionId = StoredSession /\ AllFilled(responses))
    /\ download.sessionId = "unknown" =>
         (download.status = "404" /\ ~download.generated)
    /\ (download.sessionId = StoredSession /\ ~AllFilled(responses)) =>
         (download.status = "400" /\ ~download.generated)

\* The file of a complete session that also holds an entry under a key that
\* is no placeholder key.
C36_Witness ==
  /\ download.pc = "returned"
  /\ download.status = "200" /\ download.generated
  /\ AllFilled(responses)
  /\ name \in DOMAIN responses

----------------------------------------------------------------------------
(* The chat client (components/ChatInterface.tsx) against the chat route.    *)

\* No reply is awaited.
NoData == [status |-> "none", isComplete |-> FALSE,
           hasCurrentResponses |-> FALSE, currentResponses |-> <<>>]

\* The client after handleUpload: the document of the upload reply, one
\* placeholder per detected placeholder with id = key, no value, not filled.
InitClient ==
  /\ responses = <<>>
  /\ skippedPlaceholders = <<>>
  /\ currentPlaceholderKey = Undefined
  /\ lastQuestion = Undefined
  /\ turn = NoTurn
  /\ validation = NoValidation
  /\ requests = NoRequests
  /\ explained = NoExplained
  /\ mapping = NoMapping
  /\ detection = <<>>
  /\ download = <<>>
  /\ client = [placeholders |->
                 [i \in DOMAIN placeholders |->
                    [id |-> placeholders[i].key, value |-> Empty,
                     filled |-> FALSE]],
               completed |-> FALSE, data |-> NoData]

\* handleSendMessage up to the await of fetch, and the route's work on the
\* stored session: the reply of a complete session carries `responses`, the
\* reply of an incomplete one `currentResponses`; a raised model call gives
\* the error reply.
handleSendMessage ==
  /\ client.data = NoData
  /\ \E out \in ChatAnswers : \E raised \in BOOLEAN :
       LET Processed(result) ==
             LET shouldContinue ==
                   \/ result.extractedValues # <<>>
                   \/ (~result.needsClarification /\ result.understood)
                 Json(status, complete, hasCurrentResponses) ==
                   client' =
                     [client EXCEPT
                        !.data =
                          [status |-> status, isComplete |-> complete,
                           hasCurrentResponses |-> hasCurrentResponses,
                           currentResponses |->
                             IF hasCurrentResponses THEN result.responses
                             ELSE <<>>]]
             IN  /\ responses' = result.responses
                 /\ IF result.threw THEN Json("500", FALSE, FALSE)
                    ELSE IF result.isComplete
                    THEN Json("200", TRUE, FALSE)
                    ELSE IF shouldContinue /\ raised
                    THEN Json("500", FALSE, FALSE)
                    ELSE Json("200", FALSE, TRUE)
       IN  Processed(processUserResponse(responses, out))
  /\ UNCHANGED <<skippedPlaceholders, currentPlaceholderKey, lastQuestion,
                 turn, validation, requests, explained, mapping, detection,
                 download>>

\* The rest of handleSendMessage, on the reply `data`: an error reply is
\* thrown and changes nothing in the document; data.isComplete sets
\* completed; data.currentResponses, when the reply has it, marks every
\* placeholder it has an entry for as filled with that entry.
Responded ==
  /\ client.data # NoData
  /\ LET data == client.data
         Updated(placeholder) ==
           IF placeholder.id \in DOMAIN data.currentResponses
           THEN [placeholder EXCEPT
                   !.value = data.currentResponses[placeholder.id],
                   !.filled = TRUE]
           ELSE placeholder
     IN  client' =
           [client EXCEPT
              !.data = NoData,
              !.completed = @ \/ (data.status = "200" /\ data.isComplete),
              !.placeholders =
                IF data.status = "200" /\ data.hasCurrentResponses
                THEN [i \in DOMAIN client.placeholders |->
                        Updated(client.placeholders[i])]
                ELSE @]
  /\ UNCHANGED <<responses, skippedPlaceholders, currentPlaceholderKey,
                 lastQuestion, turn, validation, requests, explained, mapping,
                 detection, download>>

NextClient == handleSendMessage \/ Responded

SpecClient == InitClient /\ [][NextClient]_vars

\* C37: whenever document.completed is true after a chat reply has been
\* processed, every placeholder of the client's document is marked filled
\* and holds the value the session has for it, the value of the completing
\* turn included.
C37_CompletedClientShowsAllValues ==
  (client.completed /\ client.data = NoData) =>
    \A i \in DOMAIN client.placeholders :
      /\ client.placeholders[i].filled
      /\ client.placeholders[i].id \in DOMAIN responses
      /\ client.placeholders[i].value = responses[client.placeholders[i].id]

----------------------------------------------------------------------------
(* Progress of the dialog.                                                    *)

\* C40: an answer turn on an incomplete session in which no call fails and
\* the extraction yields a non-blank value for the placeholder handleAnswer
\* passed as current (currentPlaceholderKey, else the first unfilled
\* placeholder) strictly lowers a measure that is zero only for a complete
\* session: else twice the number of unfilled placeholders, plus one when
\* currentPlaceholderKey names a filled placeholder.  So at most twice the
\* number of placeholders plus one such turns follow one another, whatever
\* was skipped before, and the one that fills the last placeholder returns
\* isComplete = true.
C40_AnsweringCompletes ==
  LET Measure(resp, cpk) ==
        IF AllFilled(resp) THEN 0
        ELSE 2 * Cardinality({k \in PlaceholderKeys : ~NonBlankEntry(resp, k)})
             + (IF Truthy(cpk) /\ NonBlankEntry(resp, cpk) THEN 1 ELSE 0)
  IN  ( /\ Returned /\ turn.handler = "answer"
        /\ ~AllFilled(turn.before.responses)
        /\ turn.hint \in Keys(turn.env.extractedValues)
        /\ NonBlank(Get(turn.env.extractedValues, turn.hint)) )
      => /\ Measure(responses, currentPlaceholderKey)
              < Measure(turn.before.responses,
                        turn.before.currentPlaceholderKey)
         /\ AllFilled(responses) => turn.env.isComplete
         /\ Measure(responses, currentPlaceholderKey) = 0
              <=> AllFilled(responses)

\* The last unfilled placeholder, skipped earlier, is answered: the turn
\* returns isComplete = true.
C40_Witness ==
  /\ Returned /\ turn.handler = "answer"
  /\ ~AllFilled(turn.before.responses)
  /\ turn.before.skipped # <<>>
  /\ turn.hint \in Keys(turn.env.extractedValues)
  /\ NonBlank(Get(turn.env.extractedValues, turn.hint))
  /\ InSeq(turn.before.skipped, turn.hint)
  /\ turn.env.isComplete

====
